---- MODULE Spec2Model ----
(***************************************************************************)
(* cut-optimizer-2d: the bins (guillotine.rs, maxrects.rs), the optimizer  *)
(* unit, its crossover and mutation, and the driver Optimizer::optimize    *)
(* (lib.rs), as a state machine of one optimizer object: the caller adds   *)
(* stock and cut pieces, calls optimize_guillotine or optimize_nested, and *)
(* the driver runs the genetic search once over all stock pieces and once  *)
(* per stock size.                                                         *)
(*                                                                         *)
(* Random draws (rng.gen_range, choose, shuffle, rng.gen) are choices with *)
(* \E over the values the draw can return.  Sequences are 1-based here and *)
(* 0-based in the source.                                                  *)
(***************************************************************************)
EXTENDS Integers, Sequences, FiniteSets, TLC

\* ------------------------------------------------------------------ bounds

\* Cut pieces the caller adds before optimizing.
MaxCutPieces == 3
\* Stock pieces the caller adds before optimizing.
MaxStockPieces == 2
\* Cut widths (kerf) the caller may set: 0..MaxCutWidth.
MaxCutWidth == 1
\* Units of the population the model keeps (the program keeps one per
\* heuristic and more, lib.rs 449-462).
MaxUnits == 2
\* Epochs of one run (the driver asks for 100, lib.rs 861).
MaxEpochs == 1
\* Stock pieces and cut pieces the caller adds, together.
MaxPieces == 4
\* Calls of insert and remove on one bin.
MaxCalls == 6

\* Units of a population taken by itself.
MaxPopulation == 4
\* Fitness values of a unit of such a population: 0..MaxFitness, the last
\* one standing for 1.0.
MaxFitness == 2

\* ------------------------------------------------------- sequence helpers

Min(a, b) == IF a < b THEN a ELSE b
Max(a, b) == IF a > b THEN a ELSE b
Abs(a) == IF a < 0 THEN -a ELSE a

\* Vec::swap_remove: the last element takes the place of element i.
swap_remove(s, i) ==
    [k \in 1..(Len(s) - 1) |-> IF k = i THEN s[Len(s)] ELSE s[k]]

\* Vec::remove: the elements after i shift down.
remove_at(s, i) ==
    [k \in 1..(Len(s) - 1) |-> IF k < i THEN s[k] ELSE s[k + 1]]

Reverse(s) == [k \in 1..Len(s) |-> s[Len(s) + 1 - k]]

RECURSIVE SeqSum(_)
SeqSum(s) == IF s = <<>> THEN 0 ELSE Head(s) + SeqSum(Tail(s))

RECURSIVE Flatten(_)
Flatten(ss) == IF ss = <<>> THEN <<>> ELSE Head(ss) \o Flatten(Tail(ss))

Range(s) == {s[k] : k \in 1..Len(s)}

\* ------------------------------------------------------------- geometry

\* PatternDirection::rotated
rotated(d) ==
    CASE d = "ParallelToWidth" -> "ParallelToLength"
      [] d = "ParallelToLength" -> "ParallelToWidth"
      [] OTHER -> "None"

Rect(x, y, width, length) ==
    [x |-> x, y |-> y, width |-> width, length |-> length]

Area(r) == r.width * r.length

\* A fit that compares the widths only: the length of the rectangle is not
\* looked at.
fit_by_width_only(self, pattern_direction, cut_piece, prefer_rotated) ==
    IF /\ cut_piece.pattern_direction = pattern_direction
       /\ cut_piece.width <= self.width
    THEN "Upright"
    ELSE "None"

\* Rect::fit_cut_piece.  The bins pass prefer_rotated as a third argument;
\* the function in lib.rs takes none and never reads it.
fit_cut_piece(self, pattern_direction, cut_piece, prefer_rotated) ==
    IF /\ cut_piece.pattern_direction = pattern_direction
       /\ cut_piece.width = self.width
       /\ cut_piece.length = self.length
    THEN "UprightExact"
    ELSE IF /\ cut_piece.pattern_direction = pattern_direction
            /\ cut_piece.width <= self.width
            /\ cut_piece.length <= self.length
    THEN "Upright"
    ELSE IF /\ cut_piece.can_rotate
            /\ rotated(cut_piece.pattern_direction) = pattern_direction
            /\ cut_piece.length = self.width
            /\ cut_piece.width = self.length
    THEN "RotatedExact"
    ELSE IF /\ cut_piece.can_rotate
            /\ rotated(cut_piece.pattern_direction) = pattern_direction
            /\ cut_piece.length <= self.width
            /\ cut_piece.width <= self.length
    THEN "Rotated"
    ELSE "None"

\* Fit::is_upright, Fit::is_rotated
is_upright(fit) == fit \in {"Upright", "UprightExact"}
is_rotated(fit) == fit \in {"Rotated", "RotatedExact"}

\* Rect::contains
contains(self, rect) ==
    /\ rect.x >= self.x
    /\ rect.x + rect.width <= self.x + self.width
    /\ rect.y >= self.y
    /\ rect.y + rect.length <= self.y + self.length

\* StockPiece::fits_cut_piece
fits_cut_piece(stock_piece, cut_piece) ==
    fit_cut_piece(Rect(0, 0, stock_piece.width, stock_piece.length),
                  stock_piece.pattern_direction, cut_piece, FALSE) /= "None"

\* A UsedCutPiece that keeps the pattern direction of the cut piece when
\* the piece is rotated.
UsedCutPiece_unrotated_pattern(cut_piece, rect, is_rot) ==
    [id |-> cut_piece.id,
     external_id |-> cut_piece.external_id,
     rect |-> rect,
     pattern_direction |-> cut_piece.pattern_direction,
     is_rotated |-> is_rot,
     can_rotate |-> cut_piece.can_rotate]

\* The UsedCutPiece both bins build for a placement.
UsedCutPiece(cut_piece, rect, is_rot) ==
    [id |-> cut_piece.id,
     external_id |-> cut_piece.external_id,
     rect |-> rect,
     pattern_direction |-> IF is_rot THEN rotated(cut_piece.pattern_direction)
                           ELSE cut_piece.pattern_direction,
     is_rotated |-> is_rot,
     can_rotate |-> cut_piece.can_rotate]

\* A conversion that gives every piece the id of the first.
into_cut_piece_first_id(used) ==
    [id |-> 0,
     external_id |-> used.external_id,
     width |-> IF used.is_rotated THEN used.rect.length ELSE used.rect.width,
     length |-> IF used.is_rotated THEN used.rect.width ELSE used.rect.length,
     pattern_direction |-> IF used.is_rotated THEN rotated(used.pattern_direction)
                           ELSE used.pattern_direction,
     can_rotate |-> used.can_rotate]

\* Into<CutPieceWithId> for UsedCutPiece
into_cut_piece(used) ==
    [id |-> used.id,
     external_id |-> used.external_id,
     width |-> IF used.is_rotated THEN used.rect.length ELSE used.rect.width,
     length |-> IF used.is_rotated THEN used.rect.width ELSE used.rect.length,
     pattern_direction |-> IF used.is_rotated THEN rotated(used.pattern_direction)
                           ELSE used.pattern_direction,
     can_rotate |-> used.can_rotate]

\* Into<ResultCutPiece> for UsedCutPiece
into_result_cut_piece(used) ==
    [external_id |-> used.external_id,
     x |-> used.rect.x,
     y |-> used.rect.y,
     width |-> used.rect.width,
     length |-> used.rect.length,
     pattern_direction |-> used.pattern_direction,
     is_rotated |-> used.is_rotated]

\* Bin::new of both bins: one free rectangle that spans the whole bin.
new_bin(width, length, blade_width, pattern_direction, price) ==
    [width |-> width,
     length |-> length,
     blade_width |-> blade_width,
     pattern_direction |-> pattern_direction,
     cut_pieces |-> <<>>,
     free_rects |-> <<Rect(0, 0, width, length)>>,
     price |-> price]

\* Bin::remove_cut_pieces, the part both bins share: for every piece to
\* remove, the placed pieces are scanned from the last to the first and a
\* piece with that id is taken out and its rectangle pushed to free_rects.
RECURSIVE remove_scan(_, _, _)
remove_scan(bin, id, i) ==
    IF i < 1 THEN bin
    ELSE IF bin.cut_pieces[i].id = id
         THEN remove_scan([bin EXCEPT
                             !.cut_pieces = remove_at(bin.cut_pieces, i),
                             !.free_rects = Append(bin.free_rects,
                                                   bin.cut_pieces[i].rect)],
                          id, i - 1)
         ELSE remove_scan(bin, id, i - 1)

\* A removal that stops after the first piece it is given.
remove_each_first(bin, to_remove) ==
    IF to_remove = <<>> THEN bin
    ELSE remove_scan(bin, Head(to_remove).id, Len(bin.cut_pieces))

RECURSIVE remove_each(_, _)
remove_each(bin, to_remove) ==
    IF to_remove = <<>> THEN bin
    ELSE remove_each(remove_scan(bin, Head(to_remove).id, Len(bin.cut_pieces)),
                     Tail(to_remove))

\* ------------------------------------------------------- guillotine bin

GuillotineChoices == {"BestAreaFit", "BestShortSideFit", "BestLongSideFit"}
SplitHeuristics ==
    {"ShorterLeftoverAxis", "LongerLeftoverAxis", "MinimizeArea",
     "MaximizeArea", "ShorterAxis", "LongerAxis"}
RotateHeuristics == {"PreferUpright", "PreferRotated"}

\* GuillotineBin::possible_heuristics; the random heuristic (rng.gen())
\* draws from the same choice rules, split rules and rotate preferences.
guillotine_possible_heuristics ==
    [choice : GuillotineChoices, split : SplitHeuristics, rotate : RotateHeuristics]

score_best_area_fit(width, length, free_rect) ==
    free_rect.width * free_rect.length - width * length

score_best_short_side_fit(width, length, free_rect) ==
    Min(Abs(free_rect.width - width), Abs(free_rect.length - length))

score_best_long_side_fit(width, length, free_rect) ==
    Max(Abs(free_rect.width - width), Abs(free_rect.length - length))

score_by_heuristic(width, length, free_rect, rect_choice) ==
    CASE rect_choice = "BestAreaFit" -> score_best_area_fit(width, length, free_rect)
      [] rect_choice = "BestShortSideFit" ->
             score_best_short_side_fit(width, length, free_rect)
      [] rect_choice = "BestLongSideFit" ->
             score_best_long_side_fit(width, length, free_rect)
      [] rect_choice = "WorstAreaFit" -> -score_best_area_fit(width, length, free_rect)
      [] rect_choice = "WorstShortSideFit" ->
             -score_best_short_side_fit(width, length, free_rect)
      [] rect_choice = "WorstLongSideFit" ->
             -score_best_long_side_fit(width, length, free_rect)
      [] OTHER -> free_rect.y

\* What the loop of GuillotineBin::find_placement_for_cut_piece assigns for
\* free rectangle i and its fit: best_rect, best_score (the score of the
\* heuristic for a fit that is not exact, and left alone by an exact fit),
\* best_fit and free_index.
guillotine_fit_placement(cut_piece, rect_choice, i, best, free_rect, fit) ==
    [rect |-> Rect(free_rect.x, free_rect.y,
                   IF is_upright(fit) THEN cut_piece.width ELSE cut_piece.length,
                   IF is_upright(fit) THEN cut_piece.length ELSE cut_piece.width),
     score |-> IF fit = "Upright"
               THEN score_by_heuristic(cut_piece.width, cut_piece.length, free_rect,
                                       rect_choice)
               ELSE IF fit = "Rotated"
               THEN score_by_heuristic(cut_piece.length, cut_piece.width, free_rect,
                                       rect_choice)
               ELSE best.score,
     fit |-> fit,
     free_index |-> i]

RECURSIVE guillotine_find_loop(_, _, _, _, _, _)

\* The body of that loop for free rectangle i, its fit and the placement
\* it would assign: an exact fit ends the loop ("break"), another fit is
\* taken when its score is below best_score.  best.free_index = 0 stands
\* for free_index = None; the source starts best_score at isize::MAX, which
\* every score is below, so "no placement yet" takes the place of that
\* comparison.
guillotine_find_body(bin, cut_piece, rect_choice, prefer_rotated, i, best, fit, placement) ==
    IF fit = "UprightExact" \/ fit = "RotatedExact" THEN placement
    ELSE IF fit /= "None" /\ (best.free_index = 0 \/ placement.score < best.score)
    THEN guillotine_find_loop(bin, cut_piece, rect_choice, prefer_rotated, i + 1,
                              placement)
    ELSE guillotine_find_loop(bin, cut_piece, rect_choice, prefer_rotated, i + 1, best)

\* The loop of GuillotineBin::find_placement_for_cut_piece from free
\* rectangle i on.
guillotine_find_loop(bin, cut_piece, rect_choice, prefer_rotated, i, best) ==
    IF i > Len(bin.free_rects) THEN best
    ELSE guillotine_find_body(bin, cut_piece, rect_choice, prefer_rotated, i, best,
             fit_cut_piece(bin.free_rects[i], bin.pattern_direction, cut_piece,
                           prefer_rotated),
             guillotine_fit_placement(cut_piece, rect_choice, i, best,
                 bin.free_rects[i],
                 fit_cut_piece(bin.free_rects[i], bin.pattern_direction, cut_piece,
                               prefer_rotated)))

\* A placement that is reported only for an exact fit.
guillotine_placement_exact_only(cut_piece, best) ==
    [found |-> best.fit = "UprightExact" \/ best.fit = "RotatedExact",
     used_piece |-> UsedCutPiece(cut_piece, best.rect, is_rotated(best.fit)),
     free_index |-> best.free_index]

\* What GuillotineBin::find_placement_for_cut_piece returns for the best
\* placement of the loop: [found, used_piece, free_index].
guillotine_placement(cut_piece, best) ==
    [found |-> best.free_index /= 0,
     used_piece |-> UsedCutPiece(cut_piece, best.rect, is_rotated(best.fit)),
     free_index |-> best.free_index]

\* GuillotineBin::find_placement_for_cut_piece
guillotine_find_placement(bin, cut_piece, rect_choice, prefer_rotated) ==
    guillotine_placement(cut_piece,
        guillotine_find_loop(bin, cut_piece, rect_choice, prefer_rotated, 1,
            [rect |-> Rect(0, 0, 0, 0), score |-> 0, fit |-> "None",
             free_index |-> 0]))

\* A split that leaves no room for the blade.
split_without_blade(free_rects, blade_width, free_rect, rect, horizontal) ==
    LET bottom_width == IF horizontal THEN free_rect.width ELSE rect.width
        right_length == IF horizontal THEN rect.length ELSE free_rect.length
        bottom == Rect(free_rect.x, free_rect.y + rect.length,
                       bottom_width, free_rect.length - rect.length)
        right == Rect(free_rect.x + rect.width, free_rect.y,
                      free_rect.width - rect.width, right_length)
        with_bottom == IF bottom_width > 0 /\ bottom.length > 0
                       THEN Append(free_rects, bottom) ELSE free_rects
    IN IF right.width > 0 /\ right_length > 0
       THEN Append(with_bottom, right) ELSE with_bottom

\* GuillotineBin::split_free_rect_along_axis: the free list with the bottom
\* and the right rectangle pushed when they are not degenerate.
split_free_rect_along_axis(free_rects, blade_width, free_rect, rect, horizontal) ==
    LET bottom_width == IF horizontal THEN free_rect.width ELSE rect.width
        right_length == IF horizontal THEN rect.length ELSE free_rect.length
        h == free_rect.length - rect.length
        w == free_rect.width - rect.width
        bottom_length == IF h > blade_width THEN h - blade_width ELSE 0
        right_width == IF w > blade_width THEN w - blade_width ELSE 0
        bottom == Rect(free_rect.x, free_rect.y + rect.length + blade_width,
                       bottom_width, bottom_length)
        right == Rect(free_rect.x + rect.width + blade_width, free_rect.y,
                      right_width, right_length)
        with_bottom == IF bottom_width > 0 /\ bottom_length > 0
                       THEN Append(free_rects, bottom) ELSE free_rects
    IN IF right_width > 0 /\ right_length > 0
       THEN Append(with_bottom, right) ELSE with_bottom

\* The match of GuillotineBin::split_free_rect_by_heuristic: whether the
\* split method cuts free_rect horizontally around rect.
split_horizontal(free_rect, rect, method) ==
    LET w == free_rect.width - rect.width
        h == free_rect.length - rect.length
    IN CASE method = "ShorterLeftoverAxis" -> w <= h
         [] method = "LongerLeftoverAxis" -> w > h
         [] method = "MinimizeArea" -> rect.width * h > w * rect.length
         [] method = "MaximizeArea" -> rect.width * h <= w * rect.length
         [] method = "ShorterAxis" -> free_rect.width <= free_rect.length
         [] OTHER -> free_rect.width > free_rect.length

\* GuillotineBin::split_free_rect_by_heuristic
split_free_rect_by_heuristic(free_rects, blade_width, free_rect, rect, method) ==
    split_free_rect_along_axis(free_rects, blade_width, free_rect, rect,
                               split_horizontal(free_rect, rect, method))

\* A merge that grows one free rectangle and keeps the other.
merge_pair_kept(fr, k, i, j) ==
    IF fr[i].width = fr[j].width /\ fr[i].x = fr[j].x
       /\ fr[i].y + fr[i].length + k = fr[j].y
    THEN [fr EXCEPT ![i].length = fr[i].length + fr[j].length + k]
    ELSE IF fr[i].length = fr[j].length /\ fr[i].y = fr[j].y
            /\ fr[i].x + fr[i].width + k = fr[j].x
    THEN [fr EXCEPT ![i].width = fr[i].width + fr[j].width + k]
    ELSE fr

\* The body of the two loops of GuillotineBin::merge_free_rects for one
\* pair (i, j), i < j: the free list after it.
merge_pair(fr, k, i, j) ==
    IF fr[i].width = fr[j].width /\ fr[i].x = fr[j].x
    THEN IF fr[i].y = fr[j].y + fr[j].length + k
         THEN swap_remove([fr EXCEPT ![i].y = fr[i].y - (fr[j].length + k),
                                     ![i].length = fr[i].length + fr[j].length + k], j)
         ELSE IF fr[i].y + fr[i].length + k = fr[j].y
         THEN swap_remove([fr EXCEPT ![i].length = fr[i].length + fr[j].length + k], j)
         ELSE fr
    ELSE IF fr[i].length = fr[j].length /\ fr[i].y = fr[j].y
    THEN IF fr[i].x = fr[j].x + fr[j].width + k
         THEN swap_remove([fr EXCEPT ![i].x = fr[i].x - (fr[j].width + k),
                                     ![i].width = fr[i].width + fr[j].width + k], j)
         ELSE IF fr[i].x + fr[i].width + k = fr[j].x
         THEN swap_remove([fr EXCEPT ![i].width = fr[i].width + fr[j].width + k], j)
         ELSE fr
    ELSE fr

\* The inner loop: j runs down from its start to i + 1.
RECURSIVE merge_inner(_, _, _, _)
merge_inner(fr, k, i, j) ==
    IF j <= i THEN fr ELSE merge_inner(merge_pair(fr, k, i, j), k, i, j - 1)

\* The outer loop: i runs down to 1; the inner range is taken from the
\* length of the list when the inner loop starts.
RECURSIVE merge_outer(_, _, _)
merge_outer(fr, k, i) ==
    IF i < 1 THEN fr ELSE merge_outer(merge_inner(fr, k, i, Len(fr)), k, i - 1)

\* GuillotineBin::merge_free_rects
merge_free_rects(fr, k) == merge_outer(fr, k, Len(fr))

\* GuillotineBin::insert_with_heuristics after find_placement_for_cut_piece
\* (merge = true), for the placement found and the axis of the split:
\* [ok, bin].
guillotine_place(bin, place, horizontal) ==
    LET free_rect == bin.free_rects[place.free_index]
        removed == swap_remove(bin.free_rects, place.free_index)
        split == split_free_rect_along_axis(removed, bin.blade_width, free_rect,
                                            place.used_piece.rect, horizontal)
    IN IF place.found
       THEN [ok |-> TRUE,
             bin |-> [bin EXCEPT
                        !.free_rects = merge_free_rects(split, bin.blade_width),
                        !.cut_pieces = Append(bin.cut_pieces, place.used_piece)]]
       ELSE [ok |-> FALSE, bin |-> bin]

\* GuillotineBin::insert_with_heuristics (merge = true) after
\* find_placement_for_cut_piece, for the placement found and the split
\* method: [ok, bin].
guillotine_split_place(bin, place, method) ==
    guillotine_place(bin, place,
        /\ place.found
        /\ split_horizontal(bin.free_rects[place.free_index], place.used_piece.rect,
                            method))

\* GuillotineBin::insert_with_heuristics (merge = true): [ok, bin]
guillotine_insert(bin, cut_piece, heuristic) ==
    guillotine_split_place(bin,
        guillotine_find_placement(bin, cut_piece, heuristic.choice,
                                  heuristic.rotate = "PreferRotated"),
        heuristic.split)

\* GuillotineBin::insert_cut_piece_random_heuristic: the outcomes over the
\* heuristic rng.gen() draws.  The placement is found once per choice rule
\* and rotate preference.
guillotine_insert_random(bin, cut_piece) ==
    {guillotine_split_place(bin, place, method) :
     place \in {guillotine_find_placement(bin, cut_piece, c, r = "PreferRotated") :
                 c \in GuillotineChoices, r \in RotateHeuristics},
     method \in SplitHeuristics}

\* GuillotineBin::remove_cut_pieces: [removed, bin]
guillotine_remove_cut_pieces(bin, to_remove) ==
    LET after == remove_each(bin, to_remove)
    IN [removed |-> Len(bin.cut_pieces) - Len(after.cut_pieces),
        bin |-> [after EXCEPT
                   !.free_rects = merge_free_rects(after.free_rects, bin.blade_width)]]

\* From<GuillotineBin> for ResultStockPiece
guillotine_into_result(bin) ==
    [width |-> bin.width,
     length |-> bin.length,
     pattern_direction |-> bin.pattern_direction,
     cut_pieces |-> [k \in 1..Len(bin.cut_pieces) |->
                        into_result_cut_piece(bin.cut_pieces[k])],
     waste_pieces |-> bin.free_rects,
     price |-> bin.price]

\* --------------------------------------------------------- maxrects bin

MaxRectsChoices ==
    {"BestShortSideFit", "BestLongSideFit", "BestAreaFit", "BottomLeftRule",
     "ContactPointRule"}

\* MaxRectsBin::possible_heuristics; the random heuristic draws from the
\* same choice rules and rotate preferences.
maxrects_possible_heuristics == [choice : MaxRectsChoices, rotate : RotateHeuristics]

\* common_interval_length
common_interval_length(start1, end1, start2, end2) ==
    IF end1 < start2 \/ end2 < start1 THEN 0
    ELSE Min(end1, end2) - Max(start1, start2)

\* The two additions of MaxRectsBin::contact_point_score for one placed piece.
contact_with(rect, x, y, width, length) ==
    (IF rect.x = x + width \/ rect.x + rect.width = x
     THEN common_interval_length(rect.y, rect.y + rect.length, y, y + length)
     ELSE 0)
    + (IF rect.y = y + length \/ rect.y + rect.length = y
       THEN common_interval_length(rect.x, rect.x + rect.width, x, x + width)
       ELSE 0)

\* MaxRectsBin::contact_point_score
contact_point_score(bin, x, y, width, length) ==
    (IF x = 0 \/ x + width = bin.width THEN length ELSE 0)
    + (IF y = 0 \/ y + length = bin.length THEN width ELSE 0)
    + SeqSum([k \in 1..Len(bin.cut_pieces) |->
                 contact_with(bin.cut_pieces[k].rect, x, y, width, length)])

\* The two keys a find_placement_* function of MaxRectsBin compares for a
\* placement of a (width x length) rectangle in free_rect: the placement
\* is taken when key1 is smaller, or equal with a smaller key2.  For the
\* contact point rule key1 is the negated score and there is no second key.
placement_keys(bin, rect_choice, free_rect, cut_piece, width, length) ==
    LET leftover_horiz == Abs(free_rect.width - width)
        leftover_vert == Abs(free_rect.length - length)
        short_side_fit == Min(leftover_horiz, leftover_vert)
        long_side_fit == Max(leftover_horiz, leftover_vert)
    IN CASE rect_choice = "BottomLeftRule" -> <<free_rect.y + length, free_rect.x>>
         [] rect_choice = "BestShortSideFit" -> <<short_side_fit, long_side_fit>>
         [] rect_choice = "BestLongSideFit" -> <<long_side_fit, short_side_fit>>
         [] rect_choice = "BestAreaFit" ->
                <<Area(free_rect) - cut_piece.width * cut_piece.length, short_side_fit>>
         [] OTHER ->
                <<-contact_point_score(bin, free_rect.x, free_rect.y, width, length), 0>>

RECURSIVE maxrects_find_loop(_, _, _, _, _, _)

\* The body of the loop of the find_placement_* functions for free
\* rectangle i, its fit and the keys of the placement there.
\* best.fit = "None" stands for the usize::MAX the best keys start at (for
\* the contact point rule the source tests best_fit.is_none() itself).
\* find_placement_best_area_fit skips a free rectangle smaller than the
\* piece before it looks at the fit.
maxrects_find_body(bin, cut_piece, rect_choice, prefer_rotated, i, best, free_rect, fit, keys) ==
    IF /\ ~(/\ rect_choice = "BestAreaFit"
            /\ cut_piece.width * cut_piece.length > Area(free_rect))
       /\ fit /= "None"
       /\ \/ best.fit = "None"
          \/ keys[1] < best.keys[1]
          \/ /\ rect_choice /= "ContactPointRule"
             /\ keys[1] = best.keys[1]
             /\ keys[2] < best.keys[2]
    THEN maxrects_find_loop(bin, cut_piece, rect_choice, prefer_rotated, i + 1,
             [rect |-> Rect(free_rect.x, free_rect.y,
                            IF is_upright(fit) THEN cut_piece.width
                            ELSE cut_piece.length,
                            IF is_upright(fit) THEN cut_piece.length
                            ELSE cut_piece.width),
              keys |-> keys, fit |-> fit])
    ELSE maxrects_find_loop(bin, cut_piece, rect_choice, prefer_rotated, i + 1, best)

\* The keys of the placement the fit gives in free_rect.
maxrects_fit_keys(bin, cut_piece, rect_choice, free_rect, fit) ==
    placement_keys(bin, rect_choice, free_rect, cut_piece,
                   IF is_upright(fit) THEN cut_piece.width ELSE cut_piece.length,
                   IF is_upright(fit) THEN cut_piece.length ELSE cut_piece.width)

\* The loop of the find_placement_* functions from free rectangle i on.
maxrects_find_loop(bin, cut_piece, rect_choice, prefer_rotated, i, best) ==
    IF i > Len(bin.free_rects) THEN best
    ELSE maxrects_find_body(bin, cut_piece, rect_choice, prefer_rotated, i, best,
             bin.free_rects[i],
             fit_cut_piece(bin.free_rects[i], bin.pattern_direction, cut_piece,
                           prefer_rotated),
             maxrects_fit_keys(bin, cut_piece, rect_choice, bin.free_rects[i],
                 fit_cut_piece(bin.free_rects[i], bin.pattern_direction, cut_piece,
                               prefer_rotated)))

\* What MaxRectsBin::find_placement_for_cut_piece returns for the best
\* placement of the loop: [found, rect, is_rotated].
maxrects_placement(best) ==
    [found |-> best.fit /= "None", rect |-> best.rect,
     is_rotated |-> is_rotated(best.fit)]

\* MaxRectsBin::find_placement_for_cut_piece
maxrects_find_placement(bin, cut_piece, rect_choice, prefer_rotated) ==
    maxrects_placement(
        maxrects_find_loop(bin, cut_piece, rect_choice, prefer_rotated, 1,
            [rect |-> Rect(0, 0, 0, 0), keys |-> <<0, 0>>, fit |-> "None"]))

\* The rectangle with no blade width around it.
account_for_no_blade(bin, rect) == rect

\* The rectangle MaxRectsBin::split_free_rect subtracts: rect grown by the
\* blade width on every side and cut off at the bin's edges.
account_for_blade_width(bin, rect) ==
    LET x == IF rect.x >= bin.blade_width THEN rect.x - bin.blade_width ELSE 0
        y == IF rect.y >= bin.blade_width THEN rect.y - bin.blade_width ELSE 0
        width0 == rect.width + rect.x - x + bin.blade_width
        width == IF x + width0 > bin.width THEN width0 - (x + width0 - bin.width)
                 ELSE width0
        length0 == rect.length + rect.y - y + bin.blade_width
        length == IF y + length0 > bin.length THEN length0 - (y + length0 - bin.length)
                  ELSE length0
    IN Rect(x, y, width, length)

\* MaxRectsBin::split_free_rect after the blade width is accounted for:
\* the free list after free_rect, the free rectangle free_rect_index, is
\* split around rect.
split_free_rect_around(free_rects, free_rect_index, free_rect, rect) ==
    LET overlap_x == rect.x < free_rect.x + free_rect.width
                     /\ rect.x + rect.width > free_rect.x
        overlap_y == rect.y < free_rect.y + free_rect.length
                     /\ rect.y + rect.length > free_rect.y
        above == IF /\ overlap_x
                    /\ rect.y > free_rect.y
                    /\ rect.y < free_rect.y + free_rect.length
                 THEN <<[free_rect EXCEPT !.length = rect.y - free_rect.y]>>
                 ELSE <<>>
        below == IF /\ overlap_x
                    /\ rect.y + rect.length < free_rect.y + free_rect.length
                 THEN <<[free_rect EXCEPT
                           !.y = rect.y + rect.length,
                           !.length = free_rect.y + free_rect.length
                                      - rect.y - rect.length]>>
                 ELSE <<>>
        left == IF /\ overlap_y
                   /\ rect.x > free_rect.x
                   /\ rect.x < free_rect.x + free_rect.width
                THEN <<[free_rect EXCEPT !.width = rect.x - free_rect.x]>>
                ELSE <<>>
        right == IF /\ overlap_y
                    /\ rect.x + rect.width < free_rect.x + free_rect.width
                 THEN <<[free_rect EXCEPT
                           !.x = rect.x + rect.width,
                           !.width = free_rect.x + free_rect.width
                                     - rect.x - rect.width]>>
                 ELSE <<>>
    IN IF \/ rect.x >= free_rect.x + free_rect.width
          \/ rect.x + rect.width <= free_rect.x
          \/ rect.y >= free_rect.y + free_rect.length
          \/ rect.y + rect.length <= free_rect.y
       THEN free_rects
       ELSE swap_remove(free_rects \o above \o below \o left \o right,
                        free_rect_index)

\* A split that leaves the free list as it is.
split_free_rect_skipped(bin, free_rects, free_rect_index, rect) == free_rects

\* MaxRectsBin::split_free_rect: the free list after free rectangle
\* free_rect_index is split around rect.
split_free_rect(bin, free_rects, free_rect_index, rect) ==
    split_free_rect_around(free_rects, free_rect_index, free_rects[free_rect_index],
                           account_for_blade_width(bin, rect))

\* A loop that ends after its first round.
split_all_first_round(bin, free_rects, i, rect) ==
    IF i < 1 THEN free_rects ELSE split_free_rect(bin, free_rects, i, rect)

\* The loop of insert_with_heuristics over the free rectangles, last first.
RECURSIVE split_all(_, _, _, _)
split_all(bin, free_rects, i, rect) ==
    IF i < 1 THEN free_rects
    ELSE split_all(bin, split_free_rect(bin, free_rects, i, rect), i - 1, rect)

\* The body of the loops of MaxRectsBin::prune_free_rects for one pair.
prune_pair(fr, i, j) ==
    IF contains(fr[j], fr[i]) THEN swap_remove(fr, i)
    ELSE IF contains(fr[i], fr[j]) THEN swap_remove(fr, j)
    ELSE fr

RECURSIVE prune_inner(_, _, _)
prune_inner(fr, i, j) ==
    IF j <= i THEN fr ELSE prune_inner(prune_pair(fr, i, j), i, j - 1)

RECURSIVE prune_outer(_, _)
prune_outer(fr, i) ==
    IF i < 1 THEN fr ELSE prune_outer(prune_inner(fr, i, Len(fr)), i - 1)

\* prune_free_rects without its loops.
prune_free_rects_skipped(fr) == fr

\* MaxRectsBin::prune_free_rects
prune_free_rects(fr) == prune_outer(fr, Len(fr))

\* MaxRectsBin::insert_with_heuristics after find_placement_for_cut_piece,
\* for the placement found: [ok, bin].
maxrects_place(bin, cut_piece, place) ==
    LET split == split_all(bin, bin.free_rects, Len(bin.free_rects), place.rect)
    IN IF place.found
       THEN [ok |-> TRUE,
             bin |-> [bin EXCEPT
                        !.free_rects = prune_free_rects(split),
                        !.cut_pieces = Append(bin.cut_pieces,
                            UsedCutPiece(cut_piece, place.rect, place.is_rotated))]]
       ELSE [ok |-> FALSE, bin |-> bin]

\* MaxRectsBin::insert_with_heuristics: [ok, bin]
maxrects_insert(bin, cut_piece, heuristic) ==
    maxrects_place(bin, cut_piece,
                   maxrects_find_placement(bin, cut_piece, heuristic.choice,
                                           heuristic.rotate = "PreferRotated"))

\* MaxRectsBin::insert_cut_piece_random_heuristic: the outcomes over the
\* heuristic rng.gen() draws, split once per placement found.
maxrects_insert_random(bin, cut_piece) ==
    {maxrects_place(bin, cut_piece, place) :
     place \in {maxrects_find_placement(bin, cut_piece, c, r = "PreferRotated") :
                 c \in MaxRectsChoices, r \in RotateHeuristics}}

\* MaxRectsBin::remove_cut_pieces: [removed, bin]
maxrects_remove_cut_pieces(bin, to_remove) ==
    LET after == remove_each(bin, to_remove)
    IN [removed |-> Len(bin.cut_pieces) - Len(after.cut_pieces), bin |-> after]

\* The body of the loops of MaxRectsBin::make_free_rects_disjoint for one
\* pair: the rectangle of the smaller area (the later one on a tie) splits
\* the other.
disjoint_pair(bin, fr, i, j) ==
    IF Area(fr[i]) > Area(fr[j])
    THEN split_free_rect(bin, fr, j, fr[i])
    ELSE split_free_rect(bin, fr, i, fr[j])

\* The inner loop: it ends ("break") when j has run past the list, and the
\* whole function ends ("break 'outer") when i has.  The result is
\* [fr, stop]: the free list, and whether the outer loop was left.
RECURSIVE disjoint_inner(_, _, _, _)
disjoint_inner(bin, fr, i, j) ==
    IF j <= i THEN [fr |-> fr, stop |-> FALSE]
    ELSE IF j > Len(fr) THEN [fr |-> fr, stop |-> FALSE]
    ELSE IF i > Len(fr) THEN [fr |-> fr, stop |-> TRUE]
    ELSE disjoint_inner(bin, disjoint_pair(bin, fr, i, j), i, j - 1)

RECURSIVE disjoint_outer(_, _, _, _)

\* The end of one round of the outer loop: r is what the inner loop left.
disjoint_round(bin, length, i, r) ==
    IF r.stop THEN r.fr ELSE disjoint_outer(bin, r.fr, length, i - 1)

\* The outer loop; both ranges are taken from the length at the start.
disjoint_outer(bin, fr, length, i) ==
    IF i < 1 THEN fr
    ELSE disjoint_round(bin, length, i, disjoint_inner(bin, fr, i, length))

\* MaxRectsBin::make_free_rects_disjoint
make_free_rects_disjoint(bin) ==
    disjoint_outer(bin, bin.free_rects, Len(bin.free_rects), Len(bin.free_rects))

\* From<MaxRectsBin> for ResultStockPiece
maxrects_into_result(bin) ==
    [width |-> bin.width,
     length |-> bin.length,
     pattern_direction |-> bin.pattern_direction,
     cut_pieces |-> [k \in 1..Len(bin.cut_pieces) |->
                        into_result_cut_piece(bin.cut_pieces[k])],
     waste_pieces |-> make_free_rects_disjoint(bin),
     price |-> bin.price]

\* ------------------------------------------- the Bin trait, by bin type

\* B::possible_heuristics, and the values rng.gen() draws a heuristic from.
possible_heuristics(mode) ==
    IF mode = "guillotine" THEN guillotine_possible_heuristics
    ELSE maxrects_possible_heuristics

\* Bin::insert_cut_piece_with_heuristic
insert_cut_piece_with_heuristic(mode, bin, cut_piece, heuristic) ==
    IF mode = "guillotine" THEN guillotine_insert(bin, cut_piece, heuristic)
    ELSE maxrects_insert(bin, cut_piece, heuristic)

\* Bin::insert_cut_piece_random_heuristic: the outcomes [ok, bin].
insert_cut_piece_random_heuristic(mode, bin, cut_piece) ==
    IF mode = "guillotine" THEN guillotine_insert_random(bin, cut_piece)
    ELSE maxrects_insert_random(bin, cut_piece)

\* Bin::remove_cut_pieces
remove_cut_pieces(mode, bin, to_remove) ==
    IF mode = "guillotine" THEN guillotine_remove_cut_pieces(bin, to_remove)
    ELSE maxrects_remove_cut_pieces(bin, to_remove)

\* Into<ResultStockPiece> of the bin
into_result_stock_piece(mode, bin) ==
    IF mode = "guillotine" THEN guillotine_into_result(bin)
    ELSE maxrects_into_result(bin)

\* Fitness values are floating point powers; the model keeps what the
\* driver's comparisons need.  A bin's fitness is (used / total)^(2 + n/100):
\* it is 1.0 exactly when used = total, below when used < total, above when
\* used > total.  GuillotineBin::fitness has total = used + free area;
\* MaxRectsBin::fitness counts half a blade width around every piece, cut
\* off at the bin's edges, so both areas are taken four times here.
guillotine_fitness(bin) ==
    IF SeqSum([k \in 1..Len(bin.free_rects) |-> Area(bin.free_rects[k])]) = 0
    THEN "one" ELSE "below"

maxrects_used_area4(bin, rect) ==
    (2 * rect.width + Min(2 * rect.x, bin.blade_width)
       + Min(2 * (bin.width - rect.width - rect.x), bin.blade_width))
    * (2 * rect.length + Min(2 * rect.y, bin.blade_width)
         + Min(2 * (bin.length - rect.length - rect.y), bin.blade_width))

maxrects_fitness(bin) ==
    LET used4 == SeqSum([k \in 1..Len(bin.cut_pieces) |->
                            maxrects_used_area4(bin, bin.cut_pieces[k].rect)])
        total4 == 4 * bin.width * bin.length
    IN IF used4 = total4 THEN "one"
       ELSE IF used4 < total4 THEN "below" ELSE "above"

\* Bin::fitness
bin_fitness(mode, bin) ==
    IF mode = "guillotine" THEN guillotine_fitness(bin) ELSE maxrects_fitness(bin)

\* ----------------------------------------------------------- the unit

\* A unit is its bins; possible_stock_pieces and blade_width are the same
\* for every unit of a run and are passed along.

\* The piece of a result that carries none.
NoPiece == [id |-> 0, external_id |-> 0, width |-> 0, length |-> 0,
            pattern_direction |-> "None", can_rotate |-> FALSE]

\* OptimizerUnit::add_to_new_bin: the outcomes [ok, bins] over the stock
\* piece choose(rng) returns and the heuristic rng.gen() returns.  The bin
\* takes its price from the stock piece it is made from; the stock
\* piece's quantity is not read.
add_to_new_bin(mode, possible_stock_pieces, blade_width, bins, cut_piece) ==
    LET fitting == {sp \in possible_stock_pieces : fits_cut_piece(sp, cut_piece)}
    IN IF fitting = {} THEN {[ok |-> FALSE, bins |-> bins]}
       ELSE UNION {{[ok |-> r.ok, bins |-> IF r.ok THEN Append(bins, r.bin) ELSE bins] :
                    r \in insert_cut_piece_random_heuristic(mode,
                              new_bin(sp.width, sp.length, blade_width,
                                      sp.pattern_direction, sp.price),
                              cut_piece)} :
                   sp \in fitting}

\* OptimizerUnit::first_fit_with_heuristic from bin i on.
RECURSIVE first_fit_with_heuristic(_, _, _, _, _, _, _)
first_fit_with_heuristic(mode, possible_stock_pieces, blade_width, bins, cut_piece, heuristic, i) ==
    IF i > Len(bins)
    THEN add_to_new_bin(mode, possible_stock_pieces, blade_width, bins, cut_piece)
    ELSE UNION {IF r.ok THEN {[ok |-> TRUE, bins |-> [bins EXCEPT ![i] = r.bin]]}
                ELSE first_fit_with_heuristic(mode, possible_stock_pieces, blade_width,
                                              bins, cut_piece, heuristic, i + 1) :
                r \in {insert_cut_piece_with_heuristic(mode, bins[i], cut_piece,
                                                       heuristic)}}

\* OptimizerUnit::first_fit_random_heuristics from bin i on: every bin is
\* tried with a heuristic of its own draw; the draws that insert end the
\* loop, and a draw that does not goes on to the next bin.  `tried` is the
\* outcomes of the draws for bin i.
RECURSIVE first_fit_random_heuristics(_, _, _, _, _, _)
first_fit_random_heuristics(mode, possible_stock_pieces, blade_width, bins, cut_piece, i) ==
    IF i > Len(bins)
    THEN add_to_new_bin(mode, possible_stock_pieces, blade_width, bins, cut_piece)
    ELSE UNION {{[ok |-> TRUE, bins |-> [bins EXCEPT ![i] = r.bin]] :
                 r \in {t \in tried : t.ok}}
                \cup (IF \E t \in tried : ~t.ok
                      THEN first_fit_random_heuristics(mode, possible_stock_pieces,
                               blade_width, bins, cut_piece, i + 1)
                      ELSE {}) :
                tried \in {insert_cut_piece_random_heuristic(mode, bins[i], cut_piece)}}

\* OptimizerUnit::with_heuristic, the loop from the bins built so far: the
\* outcomes [ok, bins, piece], piece being the one of the error.
RECURSIVE with_heuristic(_, _, _, _, _, _)
with_heuristic(mode, possible_stock_pieces, blade_width, bins, cut_pieces, heuristic) ==
    IF cut_pieces = <<>> THEN {[ok |-> TRUE, bins |-> bins, piece |-> NoPiece]}
    ELSE UNION {IF r.ok
                THEN with_heuristic(mode, possible_stock_pieces, blade_width, r.bins,
                                    Tail(cut_pieces), heuristic)
                ELSE {[ok |-> FALSE, bins |-> <<>>, piece |-> Head(cut_pieces)]} :
                r \in first_fit_with_heuristic(mode, possible_stock_pieces,
                          blade_width, bins, Head(cut_pieces), heuristic, 1)}

\* OptimizerUnit::with_random_heuristics, likewise.
RECURSIVE with_random_heuristics(_, _, _, _, _)
with_random_heuristics(mode, possible_stock_pieces, blade_width, bins, cut_pieces) ==
    IF cut_pieces = <<>> THEN {[ok |-> TRUE, bins |-> bins, piece |-> NoPiece]}
    ELSE UNION {IF r.ok
                THEN with_random_heuristics(mode, possible_stock_pieces, blade_width,
                                            r.bins, Tail(cut_pieces))
                ELSE {[ok |-> FALSE, bins |-> <<>>, piece |-> Head(cut_pieces)]} :
                r \in first_fit_random_heuristics(mode, possible_stock_pieces,
                          blade_width, bins, Head(cut_pieces), 1)}

\* The mean of the fitness values fs of the bins of a unit, and
\* 0.0 / 0.0 = NaN for a unit without bins.  "mixed" is a mean of values
\* above and below 1.0.
mean_fitness(fs) ==
    IF fs = {} THEN "nan"
    ELSE IF fs = {"one"} THEN "one"
    ELSE IF fs \subseteq {"one", "below"} THEN "below"
    ELSE IF fs \subseteq {"one", "above"} THEN "above"
    ELSE "mixed"

\* Unit::fitness of OptimizerUnit
unit_fitness(mode, bins) ==
    mean_fitness({bin_fitness(mode, bins[k]) : k \in 1..Len(bins)})

\* The sides of 1.0 a fitness value can lie on: -1 below, 0 at, 1 above.
fitness_sides(f) ==
    CASE f = "below" -> {-1}
      [] f = "one" -> {0}
      [] f = "above" -> {1}
      [] f = "mixed" -> {-1, 0, 1}
      [] OTHER -> {}

\* The values a > b can take for two fitness values: two values on the
\* same side of 1.0 can compare either way, two values of 1.0 are equal,
\* and every comparison with NaN is false.
greater_than(a, b) ==
    {v \in BOOLEAN :
        IF a = "nan" \/ b = "nan" THEN v = FALSE
        ELSE \E sa \in fitness_sides(a), sb \in fitness_sides(b) :
                IF v THEN sa > sb \/ (sa = sb /\ sa /= 0) ELSE sa <= sb}

\* a >= 1.0, the test of Population::epochs for a perfect unit.
at_least_one(a) ==
    {v \in BOOLEAN :
        IF a = "nan" THEN v = FALSE
        ELSE \E sa \in fitness_sides(a) : IF v THEN sa >= 0 ELSE sa < 0}

\* The loop of OptimizerUnit::crossover over the bins the child took from
\* self, the last first (idxs): a bin that held an injected piece is taken
\* out of the child and the pieces it has left are collected.  The result
\* is [bins, removed].
RECURSIVE crossover_remove(_, _, _, _, _)
crossover_remove(mode, bins, injected_cut_pieces, idxs, removed_cut_pieces) ==
    IF idxs = <<>> THEN [bins |-> bins, removed |-> removed_cut_pieces]
    ELSE LET i == Head(idxs)
             r == remove_cut_pieces(mode, bins[i], injected_cut_pieces)
         IN IF r.removed > 0
            THEN crossover_remove(mode, remove_at(bins, i), injected_cut_pieces,
                                  Tail(idxs), removed_cut_pieces \o r.bin.cut_pieces)
            ELSE crossover_remove(mode, bins, injected_cut_pieces, Tail(idxs),
                                  removed_cut_pieces)

\* A crossover that does not insert the collected pieces again.
crossover_reinsert_skipped(mode, possible_stock_pieces, blade_width, bins, removed_cut_pieces) ==
    {bins}

\* The loop of OptimizerUnit::crossover that inserts the collected pieces
\* again; the result of first_fit_random_heuristics is not looked at.
RECURSIVE crossover_reinsert(_, _, _, _, _)
crossover_reinsert(mode, possible_stock_pieces, blade_width, bins, removed_cut_pieces) ==
    IF removed_cut_pieces = <<>> THEN {bins}
    ELSE UNION {crossover_reinsert(mode, possible_stock_pieces, blade_width, r.bins,
                                   Tail(removed_cut_pieces)) :
                r \in first_fit_random_heuristics(mode, possible_stock_pieces,
                          blade_width, bins,
                          into_cut_piece(Head(removed_cut_pieces)), 1)}

\* Vec::retain of the bins that have cut pieces.
RECURSIVE retain_used(_)
retain_used(bins) ==
    IF bins = <<>> THEN <<>>
    ELSE IF Head(bins).cut_pieces /= <<>>
         THEN <<Head(bins)>> \o retain_used(Tail(bins))
         ELSE retain_used(Tail(bins))

\* The end of OptimizerUnit::crossover: r is what the removal loop left;
\* its pieces are inserted again and the bins without pieces are dropped.
crossover_refill(mode, possible_stock_pieces, blade_width, r) ==
    {retain_used(b) :
     b \in crossover_reinsert(mode, possible_stock_pieces, blade_width, r.bins,
                              r.removed)}

\* OptimizerUnit::crossover for the crossing sites drawn (0-based as in the
\* source: cross_dest in 0..len, cross_src_start < cross_src_end <= len).
crossover_at(mode, possible_stock_pieces, blade_width, self, other, cross_dest, cross_src_start, cross_src_end) ==
    LET injected == SubSeq(other, cross_src_start + 1, cross_src_end)
        new_bins == SubSeq(self, 1, cross_dest) \o injected
                    \o SubSeq(self, cross_dest + 1, Len(self))
        own == [k \in 1..Len(self) |->
                   IF k <= cross_dest THEN k ELSE k + Len(injected)]
        injected_cut_pieces == Flatten([k \in 1..Len(injected) |->
                                           injected[k].cut_pieces])
    IN crossover_refill(mode, possible_stock_pieces, blade_width,
           crossover_remove(mode, new_bins, injected_cut_pieces, Reverse(own), <<>>))

\* OptimizerUnit::crossover: the outcomes [panic, bins] over the draws of
\* the crossing sites.  rng.gen_range panics on the empty range 0..0, which
\* is the range of cross_src_start when other has no bins.
crossover(mode, possible_stock_pieces, blade_width, self, other) ==
    IF Len(other) = 0 THEN {[panic |-> TRUE, bins |-> <<>>]}
    ELSE {[panic |-> FALSE, bins |-> b] :
          b \in UNION {IF e > s
                       THEN crossover_at(mode, possible_stock_pieces, blade_width,
                                         self, other, d, s, e)
                       ELSE {} :
                       d \in 0..Len(self),
                       s \in 0..(Len(other) - 1),
                       e \in 1..Len(other)} }

\* OptimizerUnit::inversion: the outcomes over the draws r = (start, end),
\* start <= end < len; bins[start..end] is reversed, end not included.
inversion(bins) ==
    {[k \in 1..Len(bins) |->
         IF k > r[1] /\ k <= r[2] THEN bins[r[1] + r[2] + 1 - k] ELSE bins[k]] :
     r \in {q \in (0..(Len(bins) - 1)) \X (0..(Len(bins) - 1)) : q[1] <= q[2]}}

\* OptimizerUnit::mutate: the draw of 0..20 is 1, or is not.
mutate(bins) == {bins} \cup inversion(bins)

\* Unit::breed_with of OptimizerUnit: crossover, then mutate.
breed_with(mode, possible_stock_pieces, blade_width, self, other) ==
    UNION {IF c.panic THEN {c}
           ELSE {[panic |-> FALSE, bins |-> b] : b \in mutate(c.bins)} :
           c \in crossover(mode, possible_stock_pieces, blade_width, self, other)}

\* ---------------------------------------------------------- the driver

\* slice::sort_by_key with the key cmp::Reverse((width, length)): a stable
\* sort, larger (width, length) first.
before(a, b) == a.width > b.width \/ (a.width = b.width /\ a.length > b.length)

RECURSIVE sort_insert(_, _)
sort_insert(sorted, x) ==
    IF sorted = <<>> THEN <<x>>
    ELSE IF before(x, Head(sorted)) THEN <<x>> \o sorted
    ELSE <<Head(sorted)>> \o sort_insert(Tail(sorted), x)

RECURSIVE sort_by_key(_)
sort_by_key(s) ==
    IF s = <<>> THEN <<>>
    ELSE sort_insert(sort_by_key(SubSeq(s, 1, Len(s) - 1)), s[Len(s)])

\* slice::shuffle: the orders a shuffle can leave.
shuffle(s) ==
    {[k \in 1..Len(s) |-> s[p[k]]] :
     p \in {q \in [1..Len(s) -> 1..Len(s)] :
               \A a, b \in 1..Len(s) : a /= b => q[a] /= q[b]}}

\* The stock pieces and cut pieces the caller adds.  quantity is <<>> for
\* None (no limit) and <<n>> for Some(n).
StockPiece(width, length, pattern_direction, price, quantity) ==
    [width |-> width, length |-> length, pattern_direction |-> pattern_direction,
     price |-> price, quantity |-> quantity]

CutPiece(width, length, pattern_direction, can_rotate) ==
    [width |-> width, length |-> length, pattern_direction |-> pattern_direction,
     can_rotate |-> can_rotate]

StockChoices ==
    {StockPiece(1, 2, "ParallelToWidth", 3, <<1>>),
     StockPiece(2, 2, "ParallelToWidth", 1, <<>>)}

CutChoices ==
    <<CutPiece(1, 2, "ParallelToWidth", FALSE),
      CutPiece(2, 2, "ParallelToLength", TRUE)>>

Modes == {"guillotine", "nested"}

\* The result of a run, Result<(f64, Vec<ResultStockPiece>)>: ok is "Ok",
\* "Err", or "None" before the first run has ended.
NoResult == [ok |-> "None", fitness |-> "nan", stock_pieces |-> <<>>,
             piece |-> NoPiece]

\* no_fit_for_cut_piece_error
no_fit_for_cut_piece_error(cut_piece) ==
    [ok |-> "Err", fitness |-> "nan", stock_pieces |-> <<>>,
     piece |-> [cut_piece EXCEPT !.id = 0]]

VARIABLES
    stock_pieces,   \* Optimizer.stock_pieces, a hash set
    cut_pieces,     \* Optimizer.cut_pieces
    cut_width,      \* Optimizer.cut_width
    mode,           \* the bin type B of the optimize call
    pc,             \* "idle", "generate", "epochs", "done" or "panicked"
    run_stock,      \* the stock pieces of the run under way
    sizes_left,     \* the sizes of size_set the loop has yet to take
    units,          \* the units of the population the model keeps
    epoch,          \* i of the loop of Population::epochs
    best_result,    \* best_result of Optimizer::optimize
    run_results,    \* price and fitness of the Ok results of the runs (history)
    result,         \* what optimize returned
    progress,       \* what progress_callback was called with in the last run
    allow_mixed_stock_sizes  \* what the caller asked for with the setter

vars == <<stock_pieces, cut_pieces, cut_width, mode, pc, run_stock, sizes_left,
          units, epoch, best_result, run_results, result, progress,
          allow_mixed_stock_sizes>>

Init ==
    /\ stock_pieces = {}
    /\ cut_pieces = <<>>
    /\ cut_width = 0
    /\ mode = "guillotine"
    /\ pc = "idle"
    /\ run_stock = {}
    /\ sizes_left = {}
    /\ units = <<>>
    /\ epoch = 0
    /\ best_result = NoResult
    /\ run_results = {}
    /\ result = NoResult
    /\ progress = <<>>
    /\ allow_mixed_stock_sizes = TRUE

\* Optimizer::add_stock_piece: FnvHashSet::insert.
AddStockPiece(stock_piece) ==
    /\ pc = "idle"
    /\ Cardinality(stock_pieces \cup {stock_piece}) <= MaxStockPieces
    /\ Cardinality(stock_pieces \cup {stock_piece}) + Len(cut_pieces) <= MaxPieces
    /\ stock_pieces' = stock_pieces \cup {stock_piece}
    /\ UNCHANGED <<cut_pieces, cut_width, mode, pc, run_stock, sizes_left, units,
                   epoch, best_result, run_results, result, progress,
                   allow_mixed_stock_sizes>>

\* Optimizer::add_cut_piece: the id is the number of pieces added before.
\* The caller numbers its pieces with external_id the same way.
AddCutPiece(cut_piece) ==
    /\ pc = "idle"
    /\ Len(cut_pieces) < MaxCutPieces
    /\ Cardinality(stock_pieces) + Len(cut_pieces) < MaxPieces
    /\ cut_pieces' = Append(cut_pieces,
           [id |-> Len(cut_pieces),
            external_id |-> Len(cut_pieces),
            width |-> cut_piece.width,
            length |-> cut_piece.length,
            pattern_direction |-> cut_piece.pattern_direction,
            can_rotate |-> cut_piece.can_rotate])
    /\ UNCHANGED <<stock_pieces, cut_width, mode, pc, run_stock, sizes_left, units,
                   epoch, best_result, run_results, result, progress,
                   allow_mixed_stock_sizes>>

\* Optimizer::set_cut_width
SetCutWidth(width) ==
    /\ pc = "idle"
    /\ cut_width /= width
    /\ cut_width' = width
    /\ UNCHANGED <<stock_pieces, cut_pieces, mode, pc, run_stock, sizes_left, units,
                   epoch, best_result, run_results, result, progress,
                   allow_mixed_stock_sizes>>

\* size_set of Optimizer::optimize
size_set == {<<sp.width, sp.length>> : sp \in stock_pieces}

\* Optimizer::optimize up to the first call of optimize_with_stock_pieces,
\* which runs with all the stock pieces.
Optimize(B) ==
    /\ pc = "idle"
    /\ mode' = B
    /\ pc' = "generate"
    /\ run_stock' = stock_pieces
    /\ sizes_left' = size_set
    /\ units' = <<>>
    /\ epoch' = 0
    /\ best_result' = NoResult
    /\ run_results' = {}
    /\ progress' = <<>>
    /\ UNCHANGED <<stock_pieces, cut_pieces, cut_width, result,
                   allow_mixed_stock_sizes>>

\* Optimizer::optimize_guillotine
OptimizeGuillotine == Optimize("guillotine")

\* Optimizer::optimize_nested
OptimizeNested == Optimize("nested")

\* The sum of the prices of the stock pieces of a result.
total_price(res) ==
    SeqSum([k \in 1..Len(res.stock_pieces) |-> res.stock_pieces[k].price])

\* The end of a run in Optimizer::optimize.  The result of the first run
\* becomes best_result; an Ok result of a later run replaces an Err, and
\* replaces an Ok when fitness > best_fitness.  Then the loop takes the next
\* size of size_set (a hash set: in any order) and runs with the stock
\* pieces of that size, or it has ended, and the stock pieces of an Ok
\* best_result are sorted and best_result is returned.
RunEnds(run_result, calls) ==
    \E replace \in (IF best_result.ok = "None" THEN {TRUE}
                    ELSE IF run_result.ok /= "Ok" THEN {FALSE}
                    ELSE IF best_result.ok = "Err" THEN {TRUE}
                    ELSE greater_than(run_result.fitness, best_result.fitness)) :
       LET best == IF replace THEN run_result ELSE best_result
       IN /\ best_result' = best
          /\ run_results' = IF run_result.ok = "Ok"
                            THEN run_results \cup
                                 {[price |-> total_price(run_result),
                                   fitness |-> run_result.fitness]}
                            ELSE run_results
          /\ units' = <<>>
          /\ epoch' = 0
          /\ IF sizes_left = {}
             THEN /\ pc' = "done"
                  /\ result' = [best EXCEPT !.stock_pieces = sort_by_key(@)]
                  /\ UNCHANGED <<run_stock, sizes_left>>
             ELSE /\ \E size \in sizes_left :
                        /\ sizes_left' = sizes_left \ {size}
                        /\ run_stock' = {sp \in stock_pieces :
                                            sp.width = size[1] /\ sp.length = size[2]}
                  /\ pc' = "generate"
                  /\ UNCHANGED result
          /\ progress' = calls
          /\ UNCHANGED <<stock_pieces, cut_pieces, cut_width, mode,
                         allow_mixed_stock_sizes>>

\* generate_initial_units: the units of the first loop, one per heuristic,
\* built from the cut pieces sorted by cmp::Reverse((width, length)).
first_units ==
    UNION {with_heuristic(mode, run_stock, cut_width, <<>>, sort_by_key(cut_pieces), h) :
           h \in possible_heuristics(mode)}

\* The units of the second loop, one per heuristic after a shuffle.
shuffled_units ==
    UNION {with_heuristic(mode, run_stock, cut_width, <<>>, q, h) :
           q \in shuffle(cut_pieces), h \in possible_heuristics(mode)}

\* The units of the third loop, with random heuristics after a shuffle.
random_units ==
    UNION {with_random_heuristics(mode, run_stock, cut_width, <<>>, q) :
           q \in shuffle(cut_pieces)}

\* The outcomes [ok, bins, piece] of the units generate_initial_units
\* builds; the second and the third loop run with more than 2 cut pieces.
generated_units ==
    first_units
    \cup (IF Len(cut_pieces) > 2 THEN shuffled_units \cup random_units ELSE {})

\* OptimizerUnit::generate_initial_units and what optimize_with_stock_pieces
\* does with its result.  A unit with a piece left over makes it return
\* that unit's error, and the run ends with it.  Otherwise the population
\* starts, i = 0; the model keeps MaxUnits of its units.
GenerateInitialUnits ==
    /\ pc = "generate"
    /\ \E generated \in {generated_units} :
          IF \E u \in generated : ~u.ok
          THEN \E u \in generated :
                  /\ ~u.ok
                  /\ RunEnds(no_fit_for_cut_piece_error(u.piece), <<>>)
          ELSE /\ units' \in [1..MaxUnits -> {u.bins : u \in generated}]
               /\ epoch' = 0
               /\ pc' = "epochs"
               /\ progress' = <<>>
               /\ UNCHANGED <<stock_pieces, cut_pieces, cut_width, mode, run_stock,
                              sizes_left, best_result, run_results, result,
                              allow_mixed_stock_sizes>>

\* A progress that counts the run under way as completed.
progress_value_completed(i) ==
    [epoch |-> i,
     num |-> (Cardinality(size_set) - Cardinality(sizes_left) + 1) * MaxEpochs + i,
     den |-> (Cardinality(size_set) + 1) * MaxEpochs]

\* What progress_callback of the caller is called with when the loop of
\* Population::epochs calls its own with i / n_epochs: the closure of the
\* first run divides by num_runs, the closure of the run of a size adds
\* completed_runs first.  The value is num / den; epoch is i.
progress_value(i) ==
    LET num_runs == Cardinality(size_set) + 1
        completed_runs == Cardinality(size_set) - Cardinality(sizes_left)
    IN [epoch |-> i,
        num |-> completed_runs * MaxEpochs + i,
        den |-> num_runs * MaxEpochs]

\* The units of the population that can be the last after the sort of
\* Population::epochs (by fitness, NaN comparing as equal).
fittest ==
    {f \in 1..Len(units) :
        \A j \in 1..Len(units) :
            FALSE \in greater_than(unit_fitness(mode, units[j]),
                                   unit_fitness(mode, units[f]))}

\* The outcomes of Unit::breed_with for the kept units as parents.
bred ==
    UNION {breed_with(mode, run_stock, cut_width, units[a], units[b]) :
           a \in 1..Len(units), b \in 1..Len(units)}

\* Population::epochs, one round of the loop with a call of epoch: the
\* fittest unit is below 1.0 and i /= n_epochs.  The kept units of the new
\* generation are children of kept units, bred by Unit::breed_with, and
\* last a surviving parent, which is a fittest one.  A panic in breed_with
\* ends the program.
Epoch ==
    /\ pc = "epochs"
    /\ epoch < MaxEpochs
    /\ \E f \in fittest :
          /\ FALSE \in at_least_one(unit_fitness(mode, units[f]))
          /\ \E children \in [1..(Len(units) - 1) -> bred] :
                IF \E k \in 1..(Len(units) - 1) : children[k].panic
                THEN /\ pc' = "panicked"
                     /\ UNCHANGED <<units, epoch, progress>>
                ELSE /\ units' = [k \in 1..Len(units) |->
                                     IF k < Len(units) THEN children[k].bins
                                     ELSE units[f]]
                     /\ epoch' = epoch + 1
                     /\ pc' = "epochs"
                     /\ progress' = Append(progress, progress_value(epoch))
    /\ UNCHANGED <<stock_pieces, cut_pieces, cut_width, mode, run_stock, sizes_left,
                   best_result, run_results, result, allow_mixed_stock_sizes>>

\* The result of optimize_with_stock_pieces for the unit result_units[0].
unit_result(bins) ==
    [ok |-> "Ok",
     fitness |-> unit_fitness(mode, bins),
     stock_pieces |-> [k \in 1..Len(bins) |-> into_result_stock_piece(mode, bins[k])],
     piece |-> NoPiece]

\* The end of optimize_with_stock_pieces: the loop of Population::epochs
\* has ended, at i = n_epochs or because the fittest unit is at 1.0 or
\* above; the fittest unit is result_units[0] and its bins become the
\* result stock pieces.  The round of the loop at i = n_epochs calls
\* progress_callback unless it left the loop for a perfect unit.
Harvest ==
    /\ pc = "epochs"
    /\ \E f \in fittest :
          \E perfect \in at_least_one(unit_fitness(mode, units[f])) :
             /\ epoch = MaxEpochs \/ perfect
             /\ RunEnds(unit_result(units[f]),
                        IF perfect THEN progress
                        ELSE Append(progress, progress_value(epoch)))

Next ==
    \/ \E stock_piece \in StockChoices : AddStockPiece(stock_piece)
    \/ \E k \in 1..Len(CutChoices) : AddCutPiece(CutChoices[k])
    \/ \E width \in 0..MaxCutWidth : SetCutWidth(width)
    \/ OptimizeGuillotine
    \/ OptimizeNested
    \/ GenerateInitialUnits
    \/ Epoch
    \/ Harvest

Spec == Init /\ [][Next]_vars

\* The setter allow_mixed_stock_sizes the callers use (tests.rs 337, 1088):
\* it keeps what the caller asked for.
AllowMixedStockSizes(allow) ==
    /\ pc = "idle"
    /\ allow_mixed_stock_sizes /= allow
    /\ allow_mixed_stock_sizes' = allow
    /\ UNCHANGED <<stock_pieces, cut_pieces, cut_width, mode, pc, run_stock,
                   sizes_left, units, epoch, best_result, run_results, result,
                   progress>>

\* The optimizer with that setter, for optimize_guillotine and the cut width
\* left at 0.
MixedNext ==
    \/ \E allow \in BOOLEAN : AllowMixedStockSizes(allow)
    \/ \E stock_piece \in StockChoices : AddStockPiece(stock_piece)
    \/ \E k \in 1..Len(CutChoices) : AddCutPiece(CutChoices[k])
    \/ OptimizeGuillotine
    \/ GenerateInitialUnits
    \/ Epoch
    \/ Harvest

MixedSpec == Init /\ [][MixedNext]_vars

\* ------------------------------------------------- the building of a unit

\* Optimizers as add_stock_piece, add_cut_piece leave them, for the building
\* of one unit: the stock pieces and the cut pieces in the order added.
UnitScenarios ==
    {[stock |-> {StockPiece(8, 8, "None", 0, <<>>)},
      cuts |-> <<CutPiece(1, 1, "None", FALSE), CutPiece(2, 2, "None", FALSE)>>],
     [stock |-> {StockPiece(5, 4, "None", 0, <<>>)},
      cuts |-> <<CutPiece(1, 2, "None", FALSE), CutPiece(1, 3, "None", FALSE),
                 CutPiece(3, 1, "None", FALSE)>>],
     [stock |-> {StockPiece(3, 2, "ParallelToWidth", 0, <<>>)},
      cuts |-> <<CutPiece(2, 1, "ParallelToLength", TRUE),
                 CutPiece(1, 2, "ParallelToWidth", TRUE),
                 CutPiece(1, 1, "ParallelToWidth", FALSE)>>],
     [stock |-> {StockPiece(2, 2, "None", 0, <<>>), StockPiece(1, 2, "None", 0, <<>>)},
      cuts |-> <<CutPiece(2, 1, "None", TRUE), CutPiece(1, 1, "None", TRUE),
                 CutPiece(1, 2, "None", FALSE)>>],
     [stock |-> {StockPiece(2, 2, "ParallelToWidth", 0, <<>>)},
      cuts |-> <<CutPiece(2, 2, "ParallelToWidth", FALSE),
                 CutPiece(1, 2, "ParallelToLength", FALSE)>>]}

\* The optimizer is loaded, optimize_with_stock_pieces runs with all its
\* stock pieces, and a unit without bins is about to be filled.
UnitInit ==
    \E sc \in UnitScenarios :
       /\ stock_pieces = sc.stock
       /\ cut_pieces = [k \in 1..Len(sc.cuts) |->
                           [id |-> k - 1,
                            external_id |-> k - 1,
                            width |-> sc.cuts[k].width,
                            length |-> sc.cuts[k].length,
                            pattern_direction |-> sc.cuts[k].pattern_direction,
                            can_rotate |-> sc.cuts[k].can_rotate]]
       /\ cut_width \in 0..MaxCutWidth
       /\ mode \in Modes
       /\ pc = "unit"
       /\ run_stock = sc.stock
       /\ sizes_left = {}
       /\ units = << <<>> >>
       /\ epoch = 0
       /\ best_result = NoResult
       /\ run_results = {}
       /\ result = NoResult
       /\ progress = <<>>
       /\ allow_mixed_stock_sizes = TRUE

\* The ids of the cut pieces in the bins of a unit.
placed_ids(bins) ==
    UNION {{bins[b].cut_pieces[k].id : k \in 1..Len(bins[b].cut_pieces)} :
           b \in 1..Len(bins)}

\* One round of the loop of OptimizerUnit::with_random_heuristics, which
\* takes the cut pieces in the order a shuffle left: first_fit_random_heuristics
\* for a cut piece not yet in the unit.  A piece that fits nowhere ends the
\* building with the error.
FirstFit(cut_piece) ==
    /\ pc = "unit"
    /\ cut_piece.id \notin placed_ids(units[1])
    /\ \E r \in first_fit_random_heuristics(mode, run_stock, cut_width, units[1],
                                             cut_piece, 1) :
          IF r.ok
          THEN /\ units' = <<r.bins>>
               /\ UNCHANGED <<pc, result>>
          ELSE /\ pc' = "nofit"
               /\ result' = no_fit_for_cut_piece_error(cut_piece)
               /\ UNCHANGED units
    /\ UNCHANGED <<stock_pieces, cut_pieces, cut_width, mode, run_stock, sizes_left,
                   epoch, best_result, run_results, progress,
                   allow_mixed_stock_sizes>>

\* The end of optimize_with_stock_pieces for the unit built: its bins
\* become the result stock pieces.
IntoResult ==
    /\ pc = "unit"
    /\ placed_ids(units[1]) = {cut_pieces[k].id : k \in 1..Len(cut_pieces)}
    /\ result' = unit_result(units[1])
    /\ pc' = "done"
    /\ UNCHANGED <<stock_pieces, cut_pieces, cut_width, mode, run_stock, sizes_left,
                   units, epoch, best_result, run_results, progress,
                   allow_mixed_stock_sizes>>

UnitNext ==
    \/ \E k \in 1..Len(cut_pieces) : FirstFit(cut_pieces[k])
    \/ IntoResult

UnitSpec == UnitInit /\ [][UnitNext]_vars

\* ------------------------------------------------------------- one bin

\* Equivalent stock entries that differ in quantity (tests.rs 1462-1506),
\* and one of another size.
MergeChoices ==
    {StockPiece(1, 2, "ParallelToWidth", 3, <<1>>),
     StockPiece(1, 2, "ParallelToWidth", 3, <<2>>),
     StockPiece(1, 2, "ParallelToWidth", 3, <<>>),
     StockPiece(2, 2, "ParallelToWidth", 1, <<>>)}

\* The calls that load the optimizer.
StockNext ==
    \/ \E stock_piece \in MergeChoices : AddStockPiece(stock_piece)
    \/ \E k \in 1..Len(CutChoices) : AddCutPiece(CutChoices[k])
    \/ \E width \in 0..MaxCutWidth : SetCutWidth(width)

StockSpec == Init /\ [][StockNext]_vars

\* A bin as add_to_new_bin makes it from a stock piece, B::new, before its
\* first insert.  It is the only bin of the only unit; result is what the
\* last call on the bin was given and what it returned, and the number of
\* calls so far.
BinInit ==
    \E sc \in UnitScenarios :
       \E sp \in sc.stock :
          /\ stock_pieces = sc.stock
          /\ cut_pieces = [k \in 1..Len(sc.cuts) |->
                              [id |-> k - 1,
                               external_id |-> k - 1,
                               width |-> sc.cuts[k].width,
                               length |-> sc.cuts[k].length,
                               pattern_direction |-> sc.cuts[k].pattern_direction,
                               can_rotate |-> sc.cuts[k].can_rotate]]
          /\ cut_width \in 0..MaxCutWidth
          /\ mode \in Modes
          /\ pc = "bin"
          /\ run_stock = {sp}
          /\ sizes_left = {}
          /\ units = << <<new_bin(sp.width, sp.length, cut_width,
                                   sp.pattern_direction, sp.price)>> >>
          /\ epoch = 0
          /\ best_result = NoResult
          /\ run_results = {}
          /\ result = [ok |-> "New", given |-> <<>>, removed |-> 0, calls |-> 0]
          /\ progress = <<>>
          /\ allow_mixed_stock_sizes = TRUE

\* Bin::insert_cut_piece_random_heuristic for a cut piece that is not in
\* the bin; a piece that does not fit leaves the bin as it is.
InsertCutPiece(cut_piece) ==
    /\ pc = "bin"
    /\ result.calls < MaxCalls
    /\ cut_piece.id \notin placed_ids(units[1])
    /\ \E r \in insert_cut_piece_random_heuristic(mode, units[1][1], cut_piece) :
          /\ r.ok
          /\ units' = << <<r.bin>> >>
    /\ result' = [ok |-> "Inserted", given |-> <<>>, removed |-> 0,
                  calls |-> result.calls + 1]
    /\ UNCHANGED <<stock_pieces, cut_pieces, cut_width, mode, pc, run_stock,
                   sizes_left, epoch, best_result, run_results, progress,
                   allow_mixed_stock_sizes>>

\* The pieces a caller of remove_cut_pieces can hand over for the cut
\* pieces ks: used pieces of another bin, with rectangles of their own.
given_pieces(ks) ==
    [k \in 1..Len(ks) |->
        UsedCutPiece(cut_pieces[ks[k]], Rect(0, 0, cut_pieces[ks[k]].length,
                                             cut_pieces[ks[k]].width), FALSE)]

\* Bin::remove_cut_pieces for one or two pieces, in the bin or not.
RemoveCutPieces(ks) ==
    /\ pc = "bin"
    /\ result.calls < MaxCalls
    /\ \E r \in {remove_cut_pieces(mode, units[1][1], given_pieces(ks))} :
          /\ units' = << <<r.bin>> >>
          /\ result' = [ok |-> "Removed", given |-> given_pieces(ks),
                        removed |-> r.removed, calls |-> result.calls + 1]
    /\ UNCHANGED <<stock_pieces, cut_pieces, cut_width, mode, pc, run_stock,
                   sizes_left, epoch, best_result, run_results, progress,
                   allow_mixed_stock_sizes>>

BinNext ==
    \/ \E k \in 1..Len(cut_pieces) : InsertCutPiece(cut_pieces[k])
    \/ \E j, k \in 1..Len(cut_pieces) :
          RemoveCutPieces(IF j = k THEN <<j>> ELSE <<j, k>>)

BinSpec == BinInit /\ [][BinNext]_vars

\* ------------------------------------------------ the population alone

\* Population<T> of genetic/population.rs as optimize_with_stock_pieces
\* builds and runs it: set_size(units.len()), breed_factor 0.5,
\* survival_factor 0.6, epochs, finish.  A unit is known by an id and by
\* the value its fitness() returns, 0..MaxFitness, where MaxFitness stands
\* for 1.0 and the smaller values for fitnesses below 1.0 in their order.
\* generate_initial_units makes a unit per heuristic at least, so a
\* population has two units or more.

\* breed_up_to of Population::epoch: (breed_factor * len) as usize for the
\* breed_factor 0.5.
breed_up_to(len) == len \div 2

\* surviving_parents of Population::epoch with ceil left out.
surviving_parents_floor(len) == (6 * len) \div 10

\* surviving_parents of Population::epoch: (len * survival_factor).ceil()
\* for the survival_factor 0.6.
surviving_parents(len) == (6 * len + 9) \div 10

\* The breeders of Population::epoch taken from the front of the list.
RECURSIVE breeders_from_front(_, _, _)
breeders_from_front(population, breeders, up_to) ==
    IF Len(population) = 0 THEN breeders
    ELSE IF Len(breeders) + 1 = up_to THEN Append(breeders, Head(population))
    ELSE breeders_from_front(Tail(population), Append(breeders, Head(population)), up_to)

\* The first loop of Population::epoch: units popped from the end of the
\* list until there are breed_up_to of them, or none is left.
RECURSIVE breeders_of(_, _, _)
breeders_of(population, breeders, up_to) ==
    IF Len(population) = 0 THEN breeders
    ELSE IF Len(breeders) + 1 = up_to
         THEN Append(breeders, population[Len(population)])
    ELSE breeders_of(SubSeq(population, 1, Len(population) - 1),
                     Append(breeders, population[Len(population)]), up_to)

\* The number of units Population::epoch breeds.
children_count(population, max_size) ==
    max_size - surviving_parents(Len(breeders_of(population, <<>>,
                                                 breed_up_to(Len(population)))))

\* Population::epoch for the units breed_with returns: the children, then
\* breeders.drain(0..surviving_parents).
epoch_units(population, children) ==
    LET breeders == breeders_of(population, <<>>, breed_up_to(Len(population)))
    IN children \o SubSeq(breeders, 1, surviving_parents(Len(breeders)))

\* A step of the sort of Population::epochs: the unit goes behind the
\* units that are not fitter than it is (sort_by is stable).
RECURSIVE fitness_insert(_, _)
fitness_insert(sorted, unit) ==
    IF Len(sorted) = 0 THEN <<unit>>
    ELSE IF sorted[Len(sorted)].fitness <= unit.fitness THEN Append(sorted, unit)
    ELSE Append(fitness_insert(SubSeq(sorted, 1, Len(sorted) - 1), unit),
                sorted[Len(sorted)])

\* The list of a round of Population::epochs left as it was.
sort_by_fitness_skipped(population, k) == population

\* active_stack.sort_by of Population::epochs over the first k units:
\* ascending fitness.
RECURSIVE sort_by_fitness(_, _)
sort_by_fitness(population, k) ==
    IF k = 0 THEN <<>>
    ELSE fitness_insert(sort_by_fitness(population, k - 1), population[k])

\* The start of a round of Population::epochs: the units popped off
\* active_stack onto processed_stack, the stacks swapped, the list sorted.
round_stack(active_stack) ==
    sort_by_fitness(Reverse(active_stack), Len(active_stack))

\* A population that is never taken for perfect.
never_perfect(active_stack) == FALSE

\* "If we have the perfect solution then break early."
perfect_solution(active_stack) ==
    active_stack[Len(active_stack)].fitness >= MaxFitness

\* The populations optimize_with_stock_pieces hands to Population::new: n
\* units of any fitness.
PopulationInit ==
    \E n \in 2..MaxPopulation :
       \E fs \in [1..n -> 0..MaxFitness] :
          /\ units = [k \in 1..n |-> [id |-> k, fitness |-> fs[k]]]
          /\ result = [ok |-> "None", max_size |-> n, units |-> <<>>]
          /\ pc = "population"
          /\ epoch = 0
          /\ progress = <<>>
          /\ stock_pieces = {}
          /\ cut_pieces = <<>>
          /\ cut_width = 0
          /\ mode = "guillotine"
          /\ run_stock = {}
          /\ sizes_left = {}
          /\ best_result = NoResult
          /\ run_results = {}
          /\ allow_mixed_stock_sizes = TRUE

\* Population::epochs up to its for loop: self.units popped onto
\* active_stack.
EpochsBegin ==
    /\ pc = "population"
    /\ units' = Reverse(units)
    /\ pc' = "rounds"
    /\ UNCHANGED <<stock_pieces, cut_pieces, cut_width, mode, run_stock, sizes_left,
                   epoch, best_result, run_results, result, progress,
                   allow_mixed_stock_sizes>>

\* The units Population::epoch can breed in round i: their count is that
\* of the code, their fitness is any.
bred_units(active_stack, max_size, i) ==
    {[k \in 1..children_count(active_stack, max_size) |->
         [id |-> max_size * (i + 1) + k, fitness |-> fs[k]]] :
     fs \in [1..children_count(active_stack, max_size) -> 0..MaxFitness]}

\* A round i /= n_epochs of the loop of Population::epochs without the
\* perfect solution: epoch, then progress_callback.
EpochsRound ==
    /\ pc = "rounds"
    /\ epoch < MaxEpochs
    /\ \E active_stack \in {round_stack(units)} :
          /\ ~perfect_solution(active_stack)
          /\ \E children \in bred_units(active_stack, result.max_size, epoch) :
                units' = epoch_units(active_stack, children)
    /\ progress' = Append(progress, [epoch |-> epoch, num |-> epoch, den |-> MaxEpochs])
    /\ epoch' = epoch + 1
    /\ UNCHANGED <<stock_pieces, cut_pieces, cut_width, mode, pc, run_stock,
                   sizes_left, best_result, run_results, result,
                   allow_mixed_stock_sizes>>

\* The round of Population::epochs that ends the loop, by break or as
\* round n_epochs, and the loop after it that pops active_stack onto
\* self.units.
EpochsEnd ==
    /\ pc = "rounds"
    /\ \E active_stack \in {round_stack(units)} :
          /\ perfect_solution(active_stack) \/ epoch = MaxEpochs
          /\ progress' = IF perfect_solution(active_stack) THEN progress
                         ELSE Append(progress, [epoch |-> epoch, num |-> epoch,
                                                den |-> MaxEpochs])
          /\ units' = Reverse(active_stack)
    /\ pc' = "ranked"
    /\ UNCHANGED <<stock_pieces, cut_pieces, cut_width, mode, run_stock, sizes_left,
                   epoch, best_result, run_results, result,
                   allow_mixed_stock_sizes>>

\* Population::finish
Finish ==
    /\ pc = "ranked"
    /\ result' = [result EXCEPT !.ok = "Finished", !.units = units]
    /\ units' = <<>>
    /\ pc' = "finished"
    /\ UNCHANGED <<stock_pieces, cut_pieces, cut_width, mode, run_stock, sizes_left,
                   epoch, best_result, run_results, progress,
                   allow_mixed_stock_sizes>>

PopulationNext ==
    \/ EpochsBegin
    \/ EpochsRound
    \/ EpochsEnd
    \/ Finish

PopulationSpec == PopulationInit /\ [][PopulationNext]_vars

\* ------------------------------------------------------------ properties

\* A Solution has been returned, or handed on by optimize_with_stock_pieces.
returned == result.ok = "Ok"

\* The rectangle of a result cut piece (From<&ResultCutPiece> for Rect).
rect_of(cut_piece) == Rect(cut_piece.x, cut_piece.y, cut_piece.width, cut_piece.length)

\* The number of result cut pieces of a result.
placed_count(res) ==
    SeqSum([s \in 1..Len(res.stock_pieces) |-> Len(res.stock_pieces[s].cut_pieces)])

\* The number of result cut pieces of a result that carry an external id.
times_placed(res, external_id) ==
    SeqSum([s \in 1..Len(res.stock_pieces) |->
               Cardinality({c \in 1..Len(res.stock_pieces[s].cut_pieces) :
                               res.stock_pieces[s].cut_pieces[c].external_id
                               = external_id})])

\* Two rectangles share a cell.
overlap(a, b) ==
    /\ a.x < b.x + b.width
    /\ b.x < a.x + a.width
    /\ a.y < b.y + b.length
    /\ b.y < a.y + a.length

C2_PlacedInsideStock ==
    returned =>
        \A s \in 1..Len(result.stock_pieces) :
           \A c \in 1..Len(result.stock_pieces[s].cut_pieces) :
              /\ result.stock_pieces[s].cut_pieces[c].x
                    + result.stock_pieces[s].cut_pieces[c].width
                 <= result.stock_pieces[s].width
              /\ result.stock_pieces[s].cut_pieces[c].y
                    + result.stock_pieces[s].cut_pieces[c].length
                 <= result.stock_pieces[s].length

\* A stock piece with a cut piece away from the origin that reaches the far
\* edge of the stock piece.
C2_Witness ==
    /\ returned
    /\ \E s \in 1..Len(result.stock_pieces) :
          \E c \in 1..Len(result.stock_pieces[s].cut_pieces) :
             /\ result.stock_pieces[s].cut_pieces[c].x > 0
             /\ result.stock_pieces[s].cut_pieces[c].x
                   + result.stock_pieces[s].cut_pieces[c].width
                = result.stock_pieces[s].width

\* C3: in a stock piece of a returned Solution no placed piece's rectangle
\* contains another's, and with a cut width of zero no two placed pieces
\* overlap.
C3_PlacedPiecesApart ==
    returned =>
        \A s \in 1..Len(result.stock_pieces) :
           \A a, b \in 1..Len(result.stock_pieces[s].cut_pieces) :
              a /= b =>
                 /\ ~contains(rect_of(result.stock_pieces[s].cut_pieces[a]),
                              rect_of(result.stock_pieces[s].cut_pieces[b]))
                 /\ cut_width = 0 =>
                       ~overlap(rect_of(result.stock_pieces[s].cut_pieces[a]),
                                rect_of(result.stock_pieces[s].cut_pieces[b]))

\* A stock piece that holds three cut pieces, cut with zero width.
C3_Witness ==
    /\ returned
    /\ cut_width = 0
    /\ \E s \in 1..Len(result.stock_pieces) :
          Len(result.stock_pieces[s].cut_pieces) = 3

\* C4: in every stock piece of a returned Solution the areas of the placed
\* pieces and of the waste pieces sum to at most width times length.
C4_AreasWithinStock ==
    returned =>
        \A s \in 1..Len(result.stock_pieces) :
           SeqSum([c \in 1..Len(result.stock_pieces[s].cut_pieces) |->
                      Area(rect_of(result.stock_pieces[s].cut_pieces[c]))])
           + SeqSum([w \in 1..Len(result.stock_pieces[s].waste_pieces) |->
                        Area(result.stock_pieces[s].waste_pieces[w])])
           <= result.stock_pieces[s].width * result.stock_pieces[s].length

\* The placed pieces' rectangles followed by the waste pieces.
rects_of(stock_piece) ==
    [c \in 1..Len(stock_piece.cut_pieces) |-> rect_of(stock_piece.cut_pieces[c])]
    \o stock_piece.waste_pieces

\* C5: in every stock piece of a returned Solution no rectangle of the
\* placed pieces and waste pieces contains another one of them.
C5_NoRectContainsAnother ==
    returned =>
        \A s \in 1..Len(result.stock_pieces) :
           \A a, b \in 1..Len(rects_of(result.stock_pieces[s])) :
              a /= b => ~contains(rects_of(result.stock_pieces[s])[a],
                                  rects_of(result.stock_pieces[s])[b])

\* The cut piece the caller added with an external id.
demand(external_id) ==
    CHOOSE p \in Range(cut_pieces) : p.external_id = external_id

\* C6: every placed piece of a returned Solution reports the pattern
\* direction of its stock piece, which is the direction of the cut piece
\* added, rotated when the piece is_rotated; and only a cut piece that
\* can_rotate is_rotated.
C6_DirectionMatchesStock ==
    returned =>
        \A s \in 1..Len(result.stock_pieces) :
           \A c \in 1..Len(result.stock_pieces[s].cut_pieces) :
              /\ result.stock_pieces[s].cut_pieces[c].pattern_direction
                 = result.stock_pieces[s].pattern_direction
              /\ result.stock_pieces[s].cut_pieces[c].pattern_direction
                 = IF result.stock_pieces[s].cut_pieces[c].is_rotated
                   THEN rotated(demand(result.stock_pieces[s].cut_pieces[c].external_id)
                                .pattern_direction)
                   ELSE demand(result.stock_pieces[s].cut_pieces[c].external_id)
                        .pattern_direction
              /\ result.stock_pieces[s].cut_pieces[c].is_rotated
                 => demand(result.stock_pieces[s].cut_pieces[c].external_id).can_rotate

\* A stock piece with a pattern that holds a rotated cut piece and one that
\* is not rotated.
C6_Witness ==
    /\ returned
    /\ \E s \in 1..Len(result.stock_pieces) :
          /\ result.stock_pieces[s].pattern_direction /= "None"
          /\ \E a, b \in 1..Len(result.stock_pieces[s].cut_pieces) :
                /\ result.stock_pieces[s].cut_pieces[a].is_rotated
                /\ ~result.stock_pieces[s].cut_pieces[b].is_rotated

\* A stock piece the cut piece fits in a permitted orientation exists.
fits_some_stock(cut_piece) ==
    \E sp \in stock_pieces :
       \/ /\ cut_piece.pattern_direction = sp.pattern_direction
          /\ cut_piece.width <= sp.width
          /\ cut_piece.length <= sp.length
       \/ /\ cut_piece.can_rotate
          /\ rotated(cut_piece.pattern_direction) = sp.pattern_direction
          /\ cut_piece.length <= sp.width
          /\ cut_piece.width <= sp.length

\* C7: once optimize has ended, it has returned the error NoFitForCutPiece
\* with a cut piece that fits no stock piece if there is such a cut piece,
\* and a Solution if every cut piece fits some stock piece.
C7_NoFitOrSolution ==
    pc \in {"done", "panicked"} =>
        IF \E k \in 1..Len(cut_pieces) : ~fits_some_stock(cut_pieces[k])
        THEN /\ result.ok = "Err"
             /\ \E k \in 1..Len(cut_pieces) :
                   /\ ~fits_some_stock(cut_pieces[k])
                   /\ result.piece = [cut_pieces[k] EXCEPT !.id = 0]
        ELSE result.ok = "Ok"

\* The result stock pieces of a result that are equivalent to a stock piece.
bins_of(res, stock_piece) ==
    {s \in 1..Len(res.stock_pieces) :
        /\ res.stock_pieces[s].width = stock_piece.width
        /\ res.stock_pieces[s].length = stock_piece.length
        /\ res.stock_pieces[s].pattern_direction = stock_piece.pattern_direction
        /\ res.stock_pieces[s].price = stock_piece.price}

\* C9: a returned Solution has no more result stock pieces equivalent to a
\* stock piece than the quantity of that stock piece.
C9_QuantityRespected ==
    returned =>
        \A sp \in stock_pieces :
           sp.quantity /= <<>> => Cardinality(bins_of(result, sp)) <= sp.quantity[1]

\* C10: the Solution optimize returns has the lowest total price of the
\* Ok results of its runs, and no run's result of that price is fitter.
C10_LowestPriceWins ==
    (pc = "done" /\ returned) =>
        \A rr \in run_results :
           /\ total_price(result) <= rr.price
           /\ rr.price = total_price(result)
              => FALSE \in greater_than(rr.fitness, result.fitness)

\* C11: with allow_mixed_stock_sizes set to false, the result stock pieces
\* of a Solution optimize returns all have the same width and length.
C11_OneSizeWhenNotMixed ==
    (pc = "done" /\ returned /\ ~allow_mixed_stock_sizes) =>
        \A a, b \in 1..Len(result.stock_pieces) :
           /\ result.stock_pieces[a].width = result.stock_pieces[b].width
           /\ result.stock_pieces[a].length = result.stock_pieces[b].length

\* C13: optimize called without cut pieces ends with a Solution that has
\* fitness 1.0, no stock pieces and price zero; it does not panic.
C13_EmptyDemandEmptySolution ==
    (cut_pieces = <<>> /\ pc \in {"done", "panicked"}) =>
        /\ pc = "done"
        /\ result.ok = "Ok"
        /\ result.fitness = "one"
        /\ result.stock_pieces = <<>>
        /\ total_price(result) = 0

\* The number of times a cut piece id is placed in the bins of a unit.
times_in_unit(bins, id) ==
    SeqSum([b \in 1..Len(bins) |->
               Cardinality({c \in 1..Len(bins[b].cut_pieces) :
                               bins[b].cut_pieces[c].id = id})])

\* C15: every value progress_callback is called with lies in [0, 1], and in
\* one run it is called at most once for an epoch.
C15_ProgressInUnitInterval ==
    /\ \A k \in 1..Len(progress) :
          /\ progress[k].den > 0
          /\ 0 <= progress[k].num
          /\ progress[k].num <= progress[k].den
    /\ \A j, k \in 1..Len(progress) :
          j /= k => progress[j].epoch /= progress[k].epoch

\* The run of the last stock size has called progress_callback for every
\* round of its loop, the last time with 1.0.
C15_Witness ==
    /\ pc = "done"
    /\ Len(progress) = MaxEpochs + 1
    /\ progress[Len(progress)].num = progress[Len(progress)].den
    /\ Cardinality(size_set) = MaxStockPieces

\* C17: every unit of every generation of the population holds every cut
\* piece id exactly once, the children of crossover and breed_with included.
C17_CrossoverConservesPieces ==
    pc = "epochs" =>
        \A u \in 1..Len(units) :
           \A k \in 1..Len(cut_pieces) :
              times_in_unit(units[u], cut_pieces[k].id) = 1

\* A generation of children for the most cut pieces, one of them with more
\* than one bin.
C17_Witness ==
    /\ pc = "epochs"
    /\ epoch > 0
    /\ Len(cut_pieces) = MaxCutPieces
    /\ Len(units[1]) > 1

\* Two stock entries are equivalent.
equivalent(a, b) ==
    /\ a.width = b.width
    /\ a.length = b.length
    /\ a.pattern_direction = b.pattern_direction
    /\ a.price = b.price

\* C12: add_stock_piece leaves one entry for equivalent stock pieces (with
\* the quantities summed): no two entries of stock_pieces are equivalent.
C12_EquivalentEntriesMerged ==
    \A a, b \in stock_pieces : equivalent(a, b) => a = b

\* The only bin of BinSpec.
the_bin == units[1][1]

\* The placed pieces of a bin whose id is none of the ids.
kept_pieces(placed, ids) ==
    LET keep(p) == p.id \notin ids
    IN SelectSeq(placed, keep)

\* C16: remove_cut_pieces takes out exactly the placed pieces with the id
\* of a given piece, whatever the other fields of the given piece, keeps
\* the others in their order and returns how many it took out.
C16_RemovesGivenIds ==
    [][(pc = "bin" /\ result'.ok = "Removed") =>
          /\ units'[1][1].cut_pieces
             = kept_pieces(the_bin.cut_pieces,
                           {result'.given[k].id : k \in 1..Len(result'.given)})
          /\ result'.removed
             = Len(the_bin.cut_pieces) - Len(units'[1][1].cut_pieces)]_vars

\* A call given two pieces took out the one of them that was in the bin
\* and left another piece there.
C16_Witness ==
    /\ pc = "bin"
    /\ result.ok = "Removed"
    /\ Len(result.given) = 2
    /\ result.removed = 1
    /\ Len(the_bin.cut_pieces) > 0

\* Rectangles a and b are k apart along an axis.
apart(a, b, k) ==
    \/ a.x + a.width + k <= b.x
    \/ b.x + b.width + k <= a.x
    \/ a.y + a.length + k <= b.y
    \/ b.y + b.length + k <= a.y

\* C18: any two placed pieces of a bin reached by inserts and removals are
\* at least the cut width apart along one axis.
C18_KerfBetweenPieces ==
    pc = "bin" =>
        \A a, b \in 1..Len(the_bin.cut_pieces) :
           a /= b => apart(the_bin.cut_pieces[a].rect, the_bin.cut_pieces[b].rect,
                           cut_width)

\* Two pieces in a bin with a cut width after an insert that followed a
\* removal: the piece that was the first in the bin has gone, the oldest
\* one left does not lie at the corner.
C18_Witness ==
    /\ pc = "bin"
    /\ cut_width > 0
    /\ result.ok = "Inserted"
    /\ Len(the_bin.cut_pieces) > 1
    /\ the_bin.cut_pieces[1].rect.x + the_bin.cut_pieces[1].rect.y > 0

\* The placed and the free rectangles of a bin.
bin_rects(bin) ==
    [k \in 1..Len(bin.cut_pieces) |-> bin.cut_pieces[k].rect] \o bin.free_rects

\* C19: with cut width 0 the placed pieces and the free rectangles of a
\* guillotine bin tile the bin: no two overlap, all lie inside the bin, and
\* their areas sum to the area of the bin.
C19_GuillotineTiles ==
    (pc = "bin" /\ mode = "guillotine" /\ cut_width = 0) =>
        /\ \A a, b \in 1..Len(bin_rects(the_bin)) :
              a /= b => ~overlap(bin_rects(the_bin)[a], bin_rects(the_bin)[b])
        /\ \A a \in 1..Len(bin_rects(the_bin)) :
              /\ bin_rects(the_bin)[a].x + bin_rects(the_bin)[a].width
                 <= the_bin.width
              /\ bin_rects(the_bin)[a].y + bin_rects(the_bin)[a].length
                 <= the_bin.length
        /\ SeqSum([a \in 1..Len(bin_rects(the_bin)) |-> Area(bin_rects(the_bin)[a])])
           = the_bin.width * the_bin.length

\* A guillotine bin without cut width after a removal, with a piece in it
\* and more than one free rectangle.
C19_Witness ==
    /\ pc = "bin"
    /\ mode = "guillotine"
    /\ cut_width = 0
    /\ result.ok = "Removed"
    /\ result.removed > 0
    /\ Len(the_bin.cut_pieces) > 0
    /\ Len(the_bin.free_rects) > 1

\* C14: the used area of every bin reached by inserts is at most the area
\* of the bin (MaxRectsBin::fitness counts half a cut width around a piece,
\* cut off at the edges of the bin), so the fitness of the bin, and of a
\* Solution built from such bins, is at most 1.0.
C14_FitnessInUnitInterval ==
    /\ \A b \in 1..Len(units[1]) :
          /\ bin_fitness(mode, units[1][b]) \in {"one", "below"}
          /\ SeqSum([k \in 1..Len(units[1][b].cut_pieces) |->
                        Area(units[1][b].cut_pieces[k].rect)])
             <= units[1][b].width * units[1][b].length
    /\ returned => result.fitness \in {"one", "below"}

\* A Solution of MaxRects bins with a cut width and a stock piece that
\* holds more than one cut piece.
C14_Witness ==
    /\ returned
    /\ mode = "nested"
    /\ cut_width > 0
    /\ \E s \in 1..Len(result.stock_pieces) :
          Len(result.stock_pieces[s].cut_pieces) > 1

\* The cell (x, y) of a bin lies in the rectangle.
covers(rect, x, y) ==
    /\ rect.x <= x
    /\ x < rect.x + rect.width
    /\ rect.y <= y
    /\ y < rect.y + rect.length

\* C20: with cut width 0, after inserts on a MaxRects bin no free rectangle
\* overlaps a placed piece and every cell of the bin outside the placed
\* pieces lies in a free rectangle.
C20_FreeRectsCoverTheRest ==
    (pc = "unit" /\ mode = "nested" /\ cut_width = 0) =>
        \A b \in 1..Len(units[1]) :
           /\ \A f \in 1..Len(units[1][b].free_rects) :
                 \A c \in 1..Len(units[1][b].cut_pieces) :
                    ~overlap(units[1][b].free_rects[f], units[1][b].cut_pieces[c].rect)
           /\ \A x \in 0..(units[1][b].width - 1) :
                 \A y \in 0..(units[1][b].length - 1) :
                    (\A c \in 1..Len(units[1][b].cut_pieces) :
                        ~covers(units[1][b].cut_pieces[c].rect, x, y))
                    => \E f \in 1..Len(units[1][b].free_rects) :
                          covers(units[1][b].free_rects[f], x, y)

\* A MaxRects bin without cut width that holds three pieces and has more
\* than one free rectangle.
C20_Witness ==
    /\ pc = "unit"
    /\ mode = "nested"
    /\ cut_width = 0
    /\ \E b \in 1..Len(units[1]) :
          /\ Len(units[1][b].cut_pieces) = 3
          /\ Len(units[1][b].free_rects) > 1

\* C21: after every insert that placed a piece in a MaxRectsBin, no free
\* rectangle of the pruned list lies in another one, an equal one included.
C21_PrunedFreeListHasNoContainment ==
    (pc = "bin" /\ mode = "nested" /\ result.ok = "Inserted") =>
        \A a, b \in 1..Len(the_bin.free_rects) :
           a /= b => ~contains(the_bin.free_rects[a], the_bin.free_rects[b])

\* An insert into a MaxRectsBin that held a piece already has left three
\* or more free rectangles.
C21_Witness ==
    /\ pc = "bin"
    /\ mode = "nested"
    /\ result.ok = "Inserted"
    /\ Len(the_bin.cut_pieces) > 1
    /\ Len(the_bin.free_rects) > 2

\* C22: the waste pieces of a stock piece of a nested Solution, the free
\* rectangles after make_free_rects_disjoint, do not overlap one another.
C22_WasteDisjoint ==
    (returned /\ mode = "nested") =>
        \A s \in 1..Len(result.stock_pieces) :
           \A a, b \in 1..Len(result.stock_pieces[s].waste_pieces) :
              a /= b => ~overlap(result.stock_pieces[s].waste_pieces[a],
                                 result.stock_pieces[s].waste_pieces[b])

\* The greatest fitness of the units of a list.
max_fitness(population) ==
    CHOOSE f \in 0..MaxFitness :
       /\ \E u \in 1..Len(population) : population[u].fitness = f
       /\ \A u \in 1..Len(population) : population[u].fitness <= f

\* C23: the first unit of the list finish() returns after epochs is a unit
\* of the greatest fitness of the final population, and the list holds the
\* units of that population.
C23_FittestFirst ==
    [][(pc = "ranked" /\ pc' = "finished") =>
          /\ result'.units[1].fitness = max_fitness(units)
          /\ Len(result'.units) = Len(units)
          /\ Range(result'.units) = Range(units)]_vars

\* finish() has returned a list after the last round whose first unit is a
\* child of the last epoch and fitter than the unit after it.
C23_Witness ==
    /\ pc = "finished"
    /\ epoch = MaxEpochs
    /\ result.units[1].id > result.max_size * epoch
    /\ result.units[1].fitness > result.units[2].fitness

\* The ceiling of len * 0.6.
ceil_six_tenths(len) ==
    CHOOSE s \in 0..len : 10 * s >= 6 * len /\ 10 * (s - 1) < 6 * len

\* The units of a list that are as fit as any.
fittest_units(population) ==
    {population[u] : u \in {v \in 1..Len(population) :
                              population[v].fitness = max_fitness(population)}}

\* C24: an epoch carries a fittest unit of the population into the next
\* generation as it is, and the greatest fitness of the next generation is
\* not below that of the one before.
C24_FittestSurvives ==
    [][(pc = "rounds" /\ pc' = "rounds") =>
          /\ \E unit \in fittest_units(units) : unit \in Range(units')
          /\ max_fitness(units') >= max_fitness(units)]_vars

\* An epoch has bred children that are all less fit than a surviving
\* parent.
C24_Witness ==
    /\ pc = "rounds"
    /\ epoch > 0
    /\ \E u \in 1..Len(units) :
          /\ units[u].id <= result.max_size
          /\ \A v \in 1..Len(units) :
                units[v].id > result.max_size => units[v].fitness < units[u].fitness

\* C25: when a unit of the population has fitness 1.0 or more at the start
\* of a round, epochs ends there: no epoch breeds, no progress callback is
\* made, the population keeps its units, and a unit of that fitness comes
\* first in it.
C25_PerfectStopsAtOnce ==
    [][(pc = "rounds" /\ max_fitness(units) >= MaxFitness) =>
          /\ pc' = "ranked"
          /\ epoch' = epoch
          /\ progress' = progress
          /\ Len(units') = Len(units)
          /\ Range(units') = Range(units)
          /\ units'[1].fitness >= MaxFitness]_vars

\* epochs has ended after an epoch, before its last round, with a child of
\* fitness 1.0 first, and with one progress callback made.
C25_Witness ==
    /\ pc = "ranked"
    /\ epoch > 0
    /\ Len(progress) = epoch
    /\ units[1].fitness >= MaxFitness
    /\ units[1].id > result.max_size

\* The units of a list that came out of an epoch with the index i.
children_of(population, max_size, i) ==
    {u \in 1..Len(population) : population[u].id > max_size * (i + 1)}

\* C26: after an epoch the population has size units: first the children,
\* size less the survivors of them, then the survivors, which are
\* ceil(|breeders| * 0.6) units of the floor(0.5 * n) fittest of the n
\* units before, none of them less fit than a unit left behind.
C26_GenerationSizes ==
    [][(pc = "rounds" /\ pc' = "rounds") =>
          LET size == result.max_size
              survivors == ceil_six_tenths(Len(units) \div 2)
          IN /\ Len(units') = size
             /\ children_of(units', size, epoch) = 1..(size - survivors)
             /\ \A u \in (size - survivors + 1)..size :
                   /\ units'[u] \in Range(units)
                   /\ \A v \in 1..Len(units) :
                         units[v] \notin Range(units') =>
                            units[v].fitness <= units'[u].fitness]_vars

\* An epoch of a population of four units, of which two are breeders and
\* both survive, one of them less fit than the other.
C26_Witness ==
    /\ pc = "rounds"
    /\ epoch > 0
    /\ Len(units) = 4
    /\ units[3].fitness > units[4].fitness

\* C27: crossover of two parents with fewer than two bins each returns the
\* bins of self as they are, whatever the draws.
C27_DegenerateCrossoverClonesSelf ==
    pc = "epochs" =>
        \A a, b \in 1..Len(units) :
           (Len(units[a]) < 2 /\ Len(units[b]) < 2) =>
              crossover(mode, run_stock, cut_width, units[a], units[b])
              = {[panic |-> FALSE, bins |-> units[a]]}

\* C28: the fitness of a unit without bins is 0.0, a value below 1.0, and
\* not the undefined value of a division by zero.
C28_FitnessOfNoBinsIsZero ==
    pc = "epochs" =>
        \A u \in 1..Len(units) :
           Len(units[u]) = 0 => unit_fitness(mode, units[u]) = "below"

\* The cut piece fits the rectangle upright and not exactly, for a bin of
\* the pattern direction.
fits_upright(rect, pattern_direction, cut_piece) ==
    /\ cut_piece.pattern_direction = pattern_direction
    /\ cut_piece.width <= rect.width
    /\ cut_piece.length <= rect.length
    /\ ~(cut_piece.width = rect.width /\ cut_piece.length = rect.length)

\* The cut piece fits the rectangle rotated and not exactly.
fits_rotated(rect, pattern_direction, cut_piece) ==
    /\ cut_piece.can_rotate
    /\ rotated(cut_piece.pattern_direction) = pattern_direction
    /\ cut_piece.length <= rect.width
    /\ cut_piece.width <= rect.length
    /\ ~(cut_piece.length = rect.width /\ cut_piece.width = rect.length)

\* C29: for a cut piece that fits a free rectangle of the bin both upright
\* and rotated, neither way exactly, the fit is Rotated with prefer_rotated
\* and Upright without.
C29_PreferRotatedDecides ==
    pc = "bin" =>
        \A f \in 1..Len(the_bin.free_rects) :
           \A k \in 1..Len(cut_pieces) :
              (/\ fits_upright(the_bin.free_rects[f], the_bin.pattern_direction,
                               cut_pieces[k])
               /\ fits_rotated(the_bin.free_rects[f], the_bin.pattern_direction,
                               cut_pieces[k])) =>
                 /\ fit_cut_piece(the_bin.free_rects[f], the_bin.pattern_direction,
                                  cut_pieces[k], TRUE) = "Rotated"
                 /\ fit_cut_piece(the_bin.free_rects[f], the_bin.pattern_direction,
                                  cut_pieces[k], FALSE) = "Upright"

\* A free rectangle of the bin has room for the cut piece, upright or
\* rotated.
some_free_rect_fits(bin, cut_piece) ==
    \E f \in 1..Len(bin.free_rects) :
       \/ /\ cut_piece.pattern_direction = bin.pattern_direction
          /\ cut_piece.width <= bin.free_rects[f].width
          /\ cut_piece.length <= bin.free_rects[f].length
       \/ /\ cut_piece.can_rotate
          /\ rotated(cut_piece.pattern_direction) = bin.pattern_direction
          /\ cut_piece.length <= bin.free_rects[f].width
          /\ cut_piece.width <= bin.free_rects[f].length

\* The cut pieces that are not in the only bin.
not_placed == {k \in 1..Len(cut_pieces) : cut_pieces[k].id \notin placed_ids(units[1])}

\* C30: an insert into a bin, with any heuristic or a drawn one, returns
\* true when a free rectangle of the bin fits the piece and false when
\* none does, and an insert that returns false leaves the bin as it was.
C30_InsertFailsOnlyWithoutFit ==
    pc = "bin" =>
        \A k \in not_placed :
           \A r \in {insert_cut_piece_with_heuristic(mode, the_bin, cut_pieces[k], h) :
                        h \in possible_heuristics(mode)}
                    \cup insert_cut_piece_random_heuristic(mode, the_bin, cut_pieces[k]) :
              /\ r.ok = some_free_rect_fits(the_bin, cut_pieces[k])
              /\ ~r.ok => r.bin = the_bin

\* After an insert and a call of remove_cut_pieces the bin holds a piece,
\* one cut piece fits none of its free rectangles and another one fits.
C30_Witness ==
    /\ pc = "bin"
    /\ result.calls > 1
    /\ Len(the_bin.cut_pieces) > 0
    /\ \E j, k \in not_placed :
          /\ ~some_free_rect_fits(the_bin, cut_pieces[j])
          /\ some_free_rect_fits(the_bin, cut_pieces[k])

====
